---- MODULE Spec2Model ----
(***************************************************************************)
(* A model of the openmw.cfg chain loader, configuration model and         *)
(* serializer of Openmw_Config (src/src/config.rs, src/src/config).        *)
(*                                                                         *)
(* Text is modelled as a sequence of symbols ("Str"): a symbol is one      *)
(* character, or one atomic word of the file format ("content",            *)
(* "openmw.cfg", ...) standing for its characters.  A path (PathBuf) is    *)
(* the sequence of its components, each component a Str; the root          *)
(* component is <<"/">>.                                                    *)
(***************************************************************************)
EXTENDS Integers, Sequences, FiniteSets, TLC

VARIABLES
    root_config,   \* OpenMWConfiguration.root_config
    settings,      \* OpenMWConfiguration.settings
    stack,         \* the activation records of the recursive load()
    status,        \* "loading" | "loaded" | "ready" | "failed"
    error,         \* the ConfigError returned by a failed load / API call
    fileText,      \* the file system: config file path -> its lines, as read
    budget,        \* lines the files of the chain may still hold: config=
                   \* references (refs) and all other lines (lines)
    lastCall,      \* the last operation that ran, with its arguments
    hist,          \* history: directives processed so far, last one per category,
                   \* the file load() was last called on,
                   \* API calls made so far
    written        \* config file path -> the text save_user / save_subconfig
                   \* wrote to it

vars == <<root_config, settings, stack, status, error, fileText, budget, lastCall, hist,
          written>>

----------------------------------------------------------------------------
(* Str helpers (Rust str methods used by the code)                         *)

Ws == {" "}

RECURSIVE TrimStart(_)
TrimStart(s) ==
    IF s # <<>> /\ Head(s) \in Ws THEN TrimStart(Tail(s)) ELSE s

RECURSIVE TrimEnd(_)
TrimEnd(s) ==
    IF s # <<>> /\ s[Len(s)] \in Ws THEN TrimEnd(SubSeq(s, 1, Len(s) - 1)) ELSE s

Trim(s) == TrimEnd(TrimStart(s))

\* index of the first occurrence of symbol c in s, 0 when there is none
Find(s, c) ==
    IF \E i \in 1..Len(s) : s[i] = c
    THEN CHOOSE i \in 1..Len(s) : s[i] = c /\ \A j \in 1..(i - 1) : s[j] # c
    ELSE 0

Contains(s, c) == \E i \in 1..Len(s) : s[i] = c

StartsWith(s, p) == Len(s) >= Len(p) /\ SubSeq(s, 1, Len(p)) = p

\* str::splitn(2, c): one token when c does not occur, else the text before
\* the first c and the whole text after it
SplitN2(s, c) ==
    LET i == Find(s, c)
    IN  IF i = 0 THEN <<s>>
        ELSE <<SubSeq(s, 1, i - 1), SubSeq(s, i + 1, Len(s))>>

\* str::split(c): every token between occurrences of c (empty ones included)
RECURSIVE Split(_, _)
Split(s, c) ==
    LET i == Find(s, c)
    IN  IF i = 0 THEN <<s>>
        ELSE <<SubSeq(s, 1, i - 1)>> \o Split(SubSeq(s, i + 1, Len(s)), c)

RECURSIVE Concat(_)
Concat(ss) == IF ss = <<>> THEN <<>> ELSE Head(ss) \o Concat(Tail(ss))

\* str::to_lowercase on the words the replace= directive distinguishes
LowerSym(c) ==
    CASE c = "DATA" -> "data"
      [] c = "Content" -> "content"
      [] OTHER -> c

ToLowercase(s) == [i \in 1..Len(s) |-> LowerSym(s[i])]

----------------------------------------------------------------------------
(* Paths                                                                   *)

RootDir == <<"/">>
CurDir == <<".">>
ParentDir == <<".", ".">>
CfgName == <<"openmw.cfg">>

IsAbsolute(path) == path # <<>> /\ path[1] = RootDir

\* Path::join
Join(base, rel) == IF IsAbsolute(rel) THEN rel ELSE base \o rel

\* Path::parent of a path with at least one component
Parent(path) == SubSeq(path, 1, Len(path) - 1)

\* a plausible slip: the root is popped like any other component
PopAlsoRoot(path) == IF path = <<>> THEN path ELSE Parent(path)

\* PathBuf::pop: drops the last component, never the root
Pop(path) ==
    IF path = <<>> \/ path = <<RootDir>> THEN path ELSE Parent(path)

\* PathBuf::from(&str).components(): split on the separator; empty segments
\* and "." segments disappear, except a leading "." of a relative path
RECURSIVE DropCurAndEmpty(_)
DropCurAndEmpty(segs) ==
    IF segs = <<>> THEN <<>>
    ELSE IF Head(segs) = <<>> \/ Head(segs) = CurDir
         THEN DropCurAndEmpty(Tail(segs))
         ELSE <<Head(segs)>> \o DropCurAndEmpty(Tail(segs))

Components(s) ==
    LET segs == Split(s, "/")
    IN  IF s # <<>> /\ s[1] = "/" THEN <<RootDir>> \o DropCurAndEmpty(segs)
        ELSE IF segs[1] = CurDir THEN <<CurDir>> \o DropCurAndEmpty(Tail(segs))
        ELSE DropCurAndEmpty(segs)

\* Path::to_string_lossy
RECURSIVE PathToStr(_)
PathToStr(path) ==
    IF path = <<>> THEN <<>>
    ELSE IF Len(path) = 1 THEN path[1]
    ELSE IF path[1] = RootDir THEN <<"/">> \o PathToStr(Tail(path))
    ELSE path[1] \o <<"/">> \o PathToStr(Tail(path))

\* strings.rs strip_special_components
RECURSIVE StripFrom(_, _)
StripFrom(result, comps) ==
    IF comps = <<>> THEN result
    ELSE LET c == Head(comps)
         IN  IF c = CurDir THEN StripFrom(result, Tail(comps))
             ELSE IF c = ParentDir THEN StripFrom(Pop(result), Tail(comps))
             ELSE StripFrom(result \o <<c>>, Tail(comps))

strip_special_components(input) == StripFrom(<<>>, input)

\* a plausible slip: the value ends at the first quote, '&' is an ordinary
\* character
RECURSIVE UnquoteNoEscape(_, _, _)
UnquoteNoEscape(chars, i, result) ==
    IF i > Len(chars) \/ chars[i] = "\"" THEN result
    ELSE UnquoteNoEscape(chars, i + 1, result \o <<chars[i]>>)

\* the quote handling loop of parse_data_directory: i is the index of the
\* symbol looked at (1-based), the opening quote being symbol 1
RECURSIVE Unquote(_, _, _)
Unquote(chars, i, result) ==
    IF i > Len(chars) THEN result
    ELSE IF chars[i] = "&"
         THEN IF i + 1 <= Len(chars)
              THEN Unquote(chars, i + 2, result \o <<chars[i + 1]>>)
              ELSE result
         ELSE IF chars[i] = "\"" THEN result
         ELSE Unquote(chars, i + 1, result \o <<chars[i]>>)

\* the platform default directories (lib.rs), as paths
default_userdata_path == <<RootDir, <<"u">>>>
default_config_path == <<RootDir, <<"p">>>>

UserdataToken == <<"?", "u", "s", "e", "r", "d", "a", "t", "a", "?">>
UserconfigToken == <<"?", "u", "s", "e", "r", "c", "o", "n", "f", "i", "g", "?">>

RECURSIVE TrimStartSep(_)
TrimStartSep(s) ==
    IF s # <<>> /\ Head(s) \in {"/", "\\"} THEN TrimStartSep(Tail(s)) ELSE s

ReplaceSep(s) == [i \in 1..Len(s) |-> IF s[i] = "\\" THEN "/" ELSE s[i]]

\* strings.rs parse_data_directory, step by step
ResolveDirectory(config_dir, value) ==
    LET unquoted == IF value # <<>> /\ value[1] = "\"" THEN Unquote(value, 2, <<>>)
                    ELSE value
        replaced ==
            IF StartsWith(unquoted, UserdataToken)
            THEN PathToStr(default_userdata_path) \o <<"/">>
                   \o TrimStartSep(SubSeq(unquoted, Len(UserdataToken) + 1, Len(unquoted)))
            ELSE IF StartsWith(unquoted, UserconfigToken)
            THEN PathToStr(default_config_path) \o <<"/">>
                   \o TrimStartSep(SubSeq(unquoted, Len(UserdataToken) + 1, Len(unquoted)))
            ELSE unquoted
        path == Components(ReplaceSep(replaced))
    IN  strip_special_components(Join(config_dir, path))

\* ResolveDirectory of the references between the config directories
\* <root>/r, <root>/r/x and <root>/r/x/y, computed once
ResolvedNames == {<<"b">>, <<"c">>}
ResolvedValues ==
    {<<"b">>, <<"c">>, <<".", ".">>, <<".", ".", "/", "c">>}
ResolvedDirs ==
    {<<RootDir, <<"r">>>>}
        \cup {<<RootDir, <<"r">>, x>> : x \in ResolvedNames}
        \cup {<<RootDir, <<"r">>, x, y>> : x, y \in ResolvedNames}
RECURSIVE ResolvedFor(_)
ResolvedFor(pairs) ==
    IF pairs = {} THEN <<>>
    ELSE LET p == CHOOSE q \in pairs : TRUE
         IN  (p :> ResolveDirectory(p[1], p[2])) @@ ResolvedFor(pairs \ {p})
Resolved == ResolvedFor(ResolvedDirs \X ResolvedValues)

\* strings.rs parse_data_directory
parse_data_directory(config_dir, value) ==
    IF <<config_dir, value>> \in DOMAIN Resolved
    THEN Resolved[<<config_dir, value>>]
    ELSE ResolveDirectory(config_dir, value)

----------------------------------------------------------------------------
(* Bounds of the model                                                     *)

\* deepest directory, below the root config directory, that holds a config
MaxDepth == 3

----------------------------------------------------------------------------
(* Settings (config.rs SettingValue and the records of src/src/config)     *)

\* SettingValue: `variant` is the enum variant; DirectorySetting keeps its
\* `original` text in `value`; `origin` is not program state: it names the
\* directive (file, line, processing order) that created the entry
MkSetting(variant, key, value, parsed, gtype, source_config, comment, origin) ==
    [variant |-> variant, key |-> key, value |-> value, parsed |-> parsed,
     gtype |-> gtype, source_config |-> source_config, comment |-> comment,
     origin |-> origin]

\* DirectorySetting::new
DirectorySetting(variant, value, source_config, comment, origin) ==
    MkSetting(variant, <<>>, value, parse_data_directory(source_config, value),
              "", source_config, comment, origin)

\* FileSetting::new
FileSetting(variant, value, source_config, comment, origin) ==
    MkSetting(variant, <<>>, value, <<>>, "", source_config, comment, origin)

\* GenericSetting::new
GenericSetting(key, value, source_config, comment, origin) ==
    MkSetting("Generic", key, value, <<>>, "", source_config, comment, origin)

DirVariants == {"DataDirectory", "UserData", "DataLocal", "Resources", "SubConfiguration"}
FileVariants == {"ContentFile", "BethArchive", "Groundcover"}
SingletonVariants == {"UserData", "DataLocal", "Resources", "Encoding"}

NoError == [kind |-> "none", value |-> <<>>, config_path |-> <<>>]
ConfigError(kind, value, config_path) ==
    [kind |-> kind, value |-> value, config_path |-> config_path]

ApiOrigin == [file |-> <<>>, line |-> 0, seq |-> 0]

----------------------------------------------------------------------------
(* Number parsing and printing (Rust str::parse and Display)               *)

Digits == {"0", "1", "2", "3", "4", "5", "6", "7", "8", "9"}

DigitVal(c) ==
    CASE c = "0" -> 0 [] c = "1" -> 1 [] c = "2" -> 2 [] c = "3" -> 3
      [] c = "4" -> 4 [] c = "5" -> 5 [] c = "6" -> 6 [] c = "7" -> 7
      [] c = "8" -> 8 [] c = "9" -> 9

DigitSym(n) == <<"0", "1", "2", "3", "4", "5", "6", "7", "8", "9">>[n + 1]

AllDigits(s) == \A i \in 1..Len(s) : s[i] \in Digits

RECURSIVE StripLeadingZeros(_)
StripLeadingZeros(s) ==
    IF Len(s) > 1 /\ Head(s) = "0" THEN StripLeadingZeros(Tail(s)) ELSE s

RECURSIVE StripTrailingZeros(_)
StripTrailingZeros(s) ==
    IF s # <<>> /\ s[Len(s)] = "0"
    THEN StripTrailingZeros(SubSeq(s, 1, Len(s) - 1)) ELSE s

\* a <= b for two digit strings of the same length
RECURSIVE DigitsLeq(_, _)
DigitsLeq(a, b) ==
    IF a = <<>> THEN TRUE
    ELSE IF DigitVal(Head(a)) < DigitVal(Head(b)) THEN TRUE
    ELSE IF DigitVal(Head(a)) > DigitVal(Head(b)) THEN FALSE
    ELSE DigitsLeq(Tail(a), Tail(b))

\* a digit string without leading zeros is at most the digit string lim
MagnitudeLeq(a, lim) ==
    \/ Len(a) < Len(lim)
    \/ Len(a) = Len(lim) /\ DigitsLeq(a, lim)

U8Max == <<"2", "5", "5">>
I64Max == <<"9", "2", "2", "3", "3", "7", "2", "0", "3", "6",
            "8", "5", "4", "7", "7", "5", "8", "0", "7">>
I64MinMagnitude == <<"9", "2", "2", "3", "3", "7", "2", "0", "3", "6",
                     "8", "5", "4", "7", "7", "5", "8", "0", "8">>

\* str::parse::<u8>().is_ok(): an optional '+', then digits, value <= 255
ParsesU8(s) ==
    LET body == IF s # <<>> /\ Head(s) = "+" THEN Tail(s) ELSE s
    IN  /\ body # <<>>
        /\ AllDigits(body)
        /\ MagnitudeLeq(StripLeadingZeros(body), U8Max)

\* the decimal text u8's Display prints for a string that ParsesU8
U8Text(s) ==
    StripLeadingZeros(IF Head(s) = "+" THEN Tail(s) ELSE s)

\* str::parse::<i64>().is_ok(): an optional sign, digits, value in range
ParsesI64(s) ==
    LET signed == s # <<>> /\ Head(s) \in {"+", "-"}
        body == IF signed THEN Tail(s) ELSE s
    IN  /\ body # <<>>
        /\ AllDigits(body)
        /\ MagnitudeLeq(StripLeadingZeros(body),
                        IF s[1] = "-" THEN I64MinMagnitude ELSE I64Max)

\* the decimal text i64's Display prints for a string that ParsesI64
I64Text(s) ==
    LET signed == Head(s) \in {"+", "-"}
        mag == StripLeadingZeros(IF signed THEN Tail(s) ELSE s)
    IN  IF Head(s) = "-" /\ mag # <<"0">> THEN <<"-">> \o mag ELSE mag

\* the pieces of a decimal float literal: sign, integer digits, fraction digits
\* and exponent text (Rust dec2flt grammar, without inf/nan which hold no '.')
FloatParts(s) ==
    LET signed == s # <<>> /\ Head(s) \in {"+", "-"}
        neg == s # <<>> /\ Head(s) = "-"
        body == IF signed THEN Tail(s) ELSE s
        e == IF Find(body, "e") # 0 THEN Find(body, "e") ELSE Find(body, "E")
        mant == IF e = 0 THEN body ELSE SubSeq(body, 1, e - 1)
        expo == IF e = 0 THEN <<>> ELSE SubSeq(body, e + 1, Len(body))
        dot == Find(mant, ".")
        int == IF dot = 0 THEN mant ELSE SubSeq(mant, 1, dot - 1)
        frac == IF dot = 0 THEN <<>> ELSE SubSeq(mant, dot + 1, Len(mant))
    IN  [neg |-> neg, int |-> int, frac |-> frac, hasExp |-> e # 0, expo |-> expo]

\* sign and exponent mark are followed by digits, the mantissa holds a digit
FloatPartsOk(p) ==
    LET expBody == IF p.expo # <<>> /\ Head(p.expo) \in {"+", "-"}
                   THEN Tail(p.expo) ELSE p.expo
    IN  /\ AllDigits(p.int) /\ AllDigits(p.frac)
        /\ Len(p.int) + Len(p.frac) > 0
        /\ p.hasExp => (expBody # <<>> /\ AllDigits(expBody))

\* str::parse::<f64>().is_ok() for a literal holding a '.'
ParsesF64(s) == FloatPartsOk(FloatParts(s))

\* value of a short exponent text, capped
RECURSIVE DigitsValue(_, _)
DigitsValue(s, acc) ==
    IF s = <<>> THEN acc
    ELSE DigitsValue(Tail(s), IF acc > 99 THEN acc ELSE acc * 10 + DigitVal(Head(s)))

Zeros(n) == [i \in 1..n |-> "0"]

\* f64's Display for the parts of a literal: no exponent, no trailing zeros,
\* no '.' for a whole number
F64Display(p) ==
    LET expNeg == p.expo # <<>> /\ Head(p.expo) = "-"
        expBody == IF p.expo # <<>> /\ Head(p.expo) \in {"+", "-"}
                   THEN Tail(p.expo) ELSE p.expo
        ex == IF expNeg THEN 0 - DigitsValue(expBody, 0) ELSE DigitsValue(expBody, 0)
        digits == p.int \o p.frac
        point == Len(p.int) + ex
        whole == IF point <= 0 THEN <<"0">>
                 ELSE IF point >= Len(digits) THEN digits \o Zeros(point - Len(digits))
                 ELSE SubSeq(digits, 1, point)
        part == IF point <= 0 THEN Zeros(0 - point) \o digits
                ELSE IF point >= Len(digits) THEN <<>>
                ELSE SubSeq(digits, point + 1, Len(digits))
        w == StripLeadingZeros(whole)
        f == StripTrailingZeros(part)
    IN  (IF p.neg THEN <<"-">> ELSE <<>>)
            \o w \o (IF f = <<>> THEN <<>> ELSE <<".">> \o f)

\* the text f64's Display prints for a literal that ParsesF64 (literals of
\* at most 15 significant digits, which f64 holds exactly enough to print
\* back)
F64Text(s) == F64Display(FloatParts(s))

----------------------------------------------------------------------------
(* Game settings (gamesetting.rs)                                          *)

\* the tokens of value that parse as u8, in order (split, trim, filter_map)
RECURSIVE ColorParts(_)
ColorParts(tokens) ==
    IF tokens = <<>> THEN <<>>
    ELSE LET t == Trim(Head(tokens))
         IN  (IF ParsesU8(t) THEN <<U8Text(t)>> ELSE <<>>) \o ColorParts(Tail(tokens))

\* gamesetting.rs parse_color_value: Some((r, g, b)) as <<r, g, b>>, None as <<>>
parse_color_value(value) ==
    LET parts == ColorParts(Split(value, ","))
    IN  IF Len(parts) = 3 THEN parts ELSE <<>>

\* a plausible slip: Float does not ask for a '.'
GameSettingKindNoDot(value) ==
    IF parse_color_value(value) # <<>> THEN "Color"
    ELSE IF ParsesF64(value) THEN "Float"
    ELSE IF ParsesI64(value) THEN "Int"
    ELSE "String"

\* the variant TryFrom chooses for the value text of a fallback entry
GameSettingKind(value) ==
    IF parse_color_value(value) # <<>> THEN "Color"
    ELSE IF Contains(value, ".") /\ ParsesF64(value) THEN "Float"
    ELSE IF ParsesI64(value) THEN "Int"
    ELSE "String"

\* GameSettingType::value(): the text Display prints after "key,"
GameSettingText(value) ==
    LET kind == GameSettingKind(value)
    IN  CASE kind = "Color" ->
               LET c == parse_color_value(value)
               IN  c[1] \o <<",">> \o c[2] \o <<",">> \o c[3]
          [] kind = "Float" -> F64Text(value)
          [] kind = "Int" -> I64Text(value)
          [] OTHER -> value

\* TryFrom<(String, PathBuf, &mut String)> for GameSettingType, the Ok case
GameSettingOk(original_value) == Len(SplitN2(original_value, ",")) = 2

GameSettingFrom(original_value, source_config, comment, origin) ==
    LET tokens == SplitN2(original_value, ",")
    IN  MkSetting("GameSetting", tokens[1], GameSettingText(tokens[2]), <<>>,
                  GameSettingKind(tokens[2]), source_config, comment, origin)

----------------------------------------------------------------------------
(* Encoding (encodingsetting.rs)                                           *)

EncodingNames == {<<"win1250">>, <<"win1251">>, <<"win1252">>}

EncodingOk(value) == value \in EncodingNames

EncodingFrom(value, source_config, comment, origin) ==
    MkSetting("Encoding", <<>>, value, <<>>, "", source_config, comment, origin)

----------------------------------------------------------------------------
(* The file system                                                         *)

RootConfigDir == <<RootDir, <<"r">>>>

\* directory names under which no openmw.cfg exists
MissingDirs == {<<"m">>}

\* Path::is_dir: every path that does not name a config file is a directory
IsDir(path) == \A i \in 1..Len(path) : path[i] # CfgName

\* the directory holds a file openmw.cfg
HasCfg(dir) ==
    /\ IsDir(dir)
    /\ Len(dir) >= 2 /\ Len(dir) <= MaxDepth + 1
    /\ SubSeq(dir, 1, 2) = RootConfigDir
    /\ \A i \in 1..Len(dir) : dir[i] \notin MissingDirs

\* std::fs::metadata(path).is_ok() for the path of a config file
Exists(path) ==
    /\ path # <<>>
    /\ path[Len(path)] = CfgName
    /\ HasCfg(Parent(path))

----------------------------------------------------------------------------
(* The configuration model: queries and mutations as functions of settings *)
(* (Option<T> is a sequence of at most one element)                        *)

IndicesOf(S, variant) == {i \in 1..Len(S) : S[i].variant = variant}

Min(I) == CHOOSE i \in I : \A j \in I : i <= j
Max(I) == CHOOSE i \in I : \A j \in I : i >= j

\* a plausible slip: the getter scans forward
GetSingletonFirst(S, variant) ==
    LET I == IndicesOf(S, variant)
    IN  IF I = {} THEN <<>> ELSE <<S[Min(I)]>>

\* impl_singleton_setting! $get_fn: settings.iter().rev().find_map(..)
GetSingleton(S, variant) ==
    LET I == IndicesOf(S, variant)
    IN  IF I = {} THEN <<>> ELSE <<S[Max(I)]>>

\* Vec::remove
RemoveAt(S, i) == SubSeq(S, 1, i - 1) \o SubSeq(S, i + 1, Len(S))

\* a plausible slip: a new value is pushed like the entry of any other line
SetSingletonPush(S, variant, new) ==
    LET I == IndicesOf(S, variant)
    IN  CASE new # <<>> -> Append(S, new[1])
          [] I # {} /\ new = <<>> -> RemoveAt(S, Min(I))
          [] OTHER -> S

\* impl_singleton_setting! $set_fn: position() finds the first entry
SetSingleton(S, variant, new) ==
    LET I == IndicesOf(S, variant)
    IN  CASE I # {} /\ new # <<>> -> [S EXCEPT ![Min(I)] = new[1]]
          [] I = {} /\ new # <<>> -> Append(S, new[1])
          [] I # {} /\ new = <<>> -> RemoveAt(S, Min(I))
          [] OTHER -> S

\* OpenMWConfiguration::clear_matching: settings.retain(|s| !predicate(s))
clear_matching(S, predicate(_)) == SelectSeq(S, LAMBDA x : ~predicate(x))

\* a plausible slip: only the first entry of the category goes
ClearFirstOfVariant(S, variant) ==
    IF IndicesOf(S, variant) = {} THEN S ELSE RemoveAt(S, Min(IndicesOf(S, variant)))

\* clear_matching(|setting| matches!(setting, SettingValue::$variant(_)))
ClearVariant(S, variant) == clear_matching(S, LAMBDA x : x.variant = variant)

\* OpenMWConfiguration::sub_configs
sub_configs(S) == SelectSeq(S, LAMBDA x : x.variant = "SubConfiguration")

\* OpenMWConfiguration::root_config_dir
root_config_dir(root) == Parent(root)

\* OpenMWConfiguration::user_config_path with util::user_config_path
user_config_path(S, root) ==
    LET subs == sub_configs(S)
    IN  IF subs = <<>> THEN root_config_dir(root) ELSE subs[Len(subs)].parsed

\* a plausible slip: only the entry pushed last is compared
HasFileInLastEntry(S, variant, name) ==
    S # <<>> /\ S[Len(S)].variant = variant /\ S[Len(S)].value = name

\* has_content_file / has_archive_file / has_groundcover_file
HasFile(S, variant, name) ==
    \E i \in 1..Len(S) : S[i].variant = variant /\ S[i].value = name

\* the first entry of the category with this name (find_map)
FirstFile(S, variant, name) ==
    S[Min({i \in 1..Len(S) : S[i].variant = variant /\ S[i].value = name})]

RECURSIVE PushFiles(_, _, _, _)
PushFiles(S, variant, names, source_config) ==
    IF names = <<>> THEN S
    ELSE PushFiles(Append(S, FileSetting(variant, Head(names), source_config,
                                         <<>>, ApiOrigin)),
                   variant, Tail(names), source_config)

\* set_content_files / set_fallback_archives: list is Option<Vec<String>>
SetFiles(S, root, variant, list) ==
    LET cleared == ClearVariant(S, variant)
    IN  IF list = <<>> THEN cleared
        ELSE PushFiles(cleared, variant, list[1], user_config_path(cleared, root))

RECURSIVE PushDirs(_, _, _)
PushDirs(S, dirs, source_config) ==
    IF dirs = <<>> THEN S
    ELSE PushDirs(Append(S, DirectorySetting("DataDirectory", PathToStr(Head(dirs)),
                                             source_config, <<>>, ApiOrigin)),
                  Tail(dirs), source_config)

\* set_data_directories: dirs is Option<Vec<PathBuf>>
set_data_directories(S, root, dirs) ==
    LET cleared == ClearVariant(S, "DataDirectory")
    IN  IF dirs = <<>> THEN cleared
        ELSE PushDirs(cleared, dirs[1], user_config_path(cleared, root))

\* set_game_settings: the entries pushed before the first invalid element stay
RECURSIVE PushGameSettings(_, _, _)
PushGameSettings(S, list, source_config) ==
    IF list = <<>> \/ ~GameSettingOk(Head(list)) THEN S
    ELSE PushGameSettings(
             Append(S, GameSettingFrom(Head(list), source_config, <<>>, ApiOrigin)),
             Tail(list), source_config)

FirstInvalid(list) ==
    LET bad == {i \in 1..Len(list) : ~GameSettingOk(list[i])}
    IN  IF bad = {} THEN 0 ELSE Min(bad)

set_game_settings(S, root, list) ==
    LET cleared == ClearVariant(S, "GameSetting")
    IN  IF list = <<>> THEN cleared
        ELSE PushGameSettings(cleared, list[1], user_config_path(cleared, root))

\* Display of GameSettingType: comment, "fallback=", key, ",", value
GameSettingToString(gs) ==
    gs.comment \o <<"fallback", "=">> \o gs.key \o <<",">> \o gs.value

\* OpenMWConfiguration::game_settings: reverse scan, a HashSet of the
\* entries' to_string() decides which ones are yielded
RECURSIVE GameSettingsFrom(_, _, _)
GameSettingsFrom(S, i, seen) ==
    IF i = 0 THEN <<>>
    ELSE IF S[i].variant = "GameSetting" /\ GameSettingToString(S[i]) \notin seen
         THEN <<S[i]>> \o GameSettingsFrom(S, i - 1, seen \cup {GameSettingToString(S[i])})
         ELSE GameSettingsFrom(S, i - 1, seen)

game_settings(S) == GameSettingsFrom(S, Len(S), {})

\* OpenMWConfiguration::get_game_setting
get_game_setting(S, key) ==
    LET I == {i \in 1..Len(S) : S[i].variant = "GameSetting" /\ S[i].key = key}
    IN  IF I = {} THEN <<>> ELSE <<S[Max(I)]>>

----------------------------------------------------------------------------
(* The lines the files of the chain may hold, one alphabet per             *)
(* specification                                                           *)

\* plain settings, encodings and references
ChainLines ==
    { <<"k", "=", "v">>,
      <<"encoding", "=", "win1250">>,
      <<"config", "=", "b">>,
      <<"config", "=", "c">> }

\* file, directory and fallback entries, replace directives, a reference to a
\* directory that holds a config file and one to a directory that holds none
LoadLines ==
    { <<"content", "=", "a">>,
      <<"groundcover", "=", "a">>,
      <<"fallback-archive", "=", "a">>,
      <<"data", "=", "a">>,
      <<"user-data", "=", "a">>,
      <<"data-local", "=", "a">>,
      <<"resources", "=", "a">>,
      <<"fallback", "=", "k", ",", "1">>,
      <<"replace", "=", "data">>,
      <<"replace", "=", "content">>,
      <<"replace", "=", "fallback">>,
      <<"replace", "=", "fallback-archives">>,
      <<"replace", "=", "user-data">>,
      <<"config", "=", "b">>,
      <<"config", "=", "m">> }

\* what the configurations the API is called on are loaded from
ApiLines ==
    { <<"content", "=", "a">>,
      <<"user-data", "=", "a">>,
      <<"fallback", "=", "k", ",", "1">>,
      <<"fallback", "=", "k", ",", "2">>,
      <<"config", "=", "b">>,
      <<"config", "=", "m">> }

\* comment blocks around directives of several kinds
SaveLines ==
    { <<"#", " ", "c">>,
      <<>>,
      <<"k", "=", "v">>,
      <<"content", "=", "a">>,
      <<"data", "=", "a">>,
      <<"encoding", "=", "win1250">>,
      <<"config", "=", "b">>,
      <<"config", "=", "m">> }

\* lines load() refuses, next to lines of the same keys that it accepts
ErrLines ==
    { <<" ", "x", " ">>,
      <<"#", "x">>,
      <<>>,
      <<"fallback", "=", "k">>,
      <<"fallback", "=", "k", ",", "1">>,
      <<"encoding", "=", "utf8">>,
      <<"encoding", "=", "win1252">>,
      <<"content", "=", "a">>,
      <<"config", "=", "b">>,
      <<"config", "=", "m">> }

\* directory values that begin with a token
TokenValues ==
    { <<"?", "u", "s", "e", "r", "d", "a", "t", "a", "?", "/", "foo">>,
      <<"?", "u", "s", "e", "r", "c", "o", "n", "f", "i", "g", "?", "/", "bar">>,
      <<"?", "u", "s", "e", "r", "d", "a", "t", "a", "?", "foo">>,
      <<"?", "u", "s", "e", "r", "d", "a", "t", "a", "?", "/", "/", "foo">>,
      <<"?", "u", "s", "e", "r", "d", "a", "t", "a", "?">>,
      <<"?", "u", "s", "e", "r", "c", "o", "n", "f", "i", "g", "?", "\\", "bar">> }

\* directory values that begin with a quote
QuotedValues ==
    { <<"\"", "foo", " ", "bar", "\"">>,
      <<"\"", "foo", "\"", "bar">>,
      <<"\"", "foo">>,
      <<"\"", "foo", "&", "\"", "bar", "\"", "baz">>,
      <<"\"", "foo", "&", "&", "bar", "\"">>,
      <<"\"", "foo", "&">>,
      <<"\"", "&", "foo", "\"">>,
      <<"\"", "&", "\"", "foo", "\"">>,
      <<"\"", "\"">>,
      <<"\"", "/", "foo", "\"">>,
      <<"\"", "?", "u", "s", "e", "r", "d", "a", "t", "a", "?", "/", "foo", "\"">> }

\* directory values with "." and ".." components, separators of both kinds
DottedValues ==
    { <<"foo", "/", ".", "/", "bar", "/", ".", ".", "/", "baz">>,
      <<".", ".", "/", "foo">>,
      <<".", ".", "/", ".", ".", "/", ".", ".", "/", "foo">>,
      <<"/", ".", ".", "/", "foo">>,
      <<".", "/", "foo">>,
      <<"foo", "/", ".", ".">>,
      <<"/", "foo", "/", "bar">>,
      <<".">>,
      <<".", ".">>,
      <<"foo", "\\", "bar">> }

PathValues == TokenValues \cup QuotedValues \cup DottedValues

\* data= lines with these values, a reference to a directory below that
\* holds a config file and one to a directory that holds none
PathLines ==
    {<<"data", "=">> \o v : v \in PathValues}
        \cup {<<"config", "=", "b">>, <<"config", "=", "m">>}

\* plain settings, replace directives and references
UserLines ==
    { <<"k", "=", "v">>,
      <<"replace", "=", "config">>,
      <<"replace", "=", "data">>,
      <<"config", "=", "b">>,
      <<"config", "=", "c">>,
      <<"config", "=", "m">> }

\* the singleton directories and the replace directives for them
ReplLines ==
    { <<"user-data", "=", "a">>,
      <<"data-local", "=", "a">>,
      <<"resources", "=", "a">>,
      <<"replace", "=", "user-data">>,
      <<"replace", "=", "data-local">>,
      <<"replace", "=", "resources">>,
      <<"config", "=", "b">>,
      <<"config", "=", "m">> }

\* references up and sideways in the directory tree, so that files can refer
\* to a file that refers to them or to a file another file refers to as well; file entries, a plain setting and a malformed line
CycleLines ==
    { <<"k", "=", "v">>,
      <<"content", "=", "a">>,
      <<"groundcover", "=", "a">>,
      <<"fallback-archive", "=", "a">>,
      <<" ", "x", " ">>,
      <<"config", "=", "b">>,
      <<"config", "=", "c">>,
      <<"config", "=", ".", ".">>,
      <<"config", "=", ".", ".", "/", "c">> }

AllLines ==
    ChainLines \cup LoadLines \cup ApiLines \cup SaveLines \cup ErrLines \cup PathLines
        \cup UserLines \cup ReplLines \cup CycleLines

----------------------------------------------------------------------------
(* load(): one activation record per call, one action per loop iteration   *)

Top == stack[Len(stack)]

\* a fresh activation of load(config_dir); replay says the file was read
\* before, so that its lines are the ones fileText already holds
Frame(config_dir, replay) ==
    [config_dir |-> config_dir, n |-> 0, queued_comment |-> <<>>,
     sub_configs |-> <<>>, phase |-> "lines", replay |-> replay]

Reading == status = "loading" /\ stack # <<>> /\ Top.phase = "lines"

\* load() on one line: line.trim(), the blank and comment tests,
\* trimmed.splitn(2, '='), tokens[0].trim() and tokens[1].trim()
ParseLine(l) ==
    LET tokens == SplitN2(Trim(l), "=")
    IN  [trimmed |-> Trim(l),
         tokens |-> tokens,
         key |-> IF Len(tokens) = 2 THEN Trim(tokens[1]) ELSE <<>>,
         value |-> IF Len(tokens) = 2 THEN Trim(tokens[2]) ELSE <<>>]

\* ParseLine of every line a file of the model may hold
ParsedLines == [l \in AllLines |-> ParseLine(l)]

Trimmed(l) == ParsedLines[l].trimmed
IsBlank(l) == Trimmed(l) = <<>>
IsComment(l) == Trimmed(l) # <<>> /\ Trimmed(l)[1] = "#"
LineTokens(l) == ParsedLines[l].tokens
IsDirective(l) == ~IsBlank(l) /\ ~IsComment(l) /\ Len(LineTokens(l)) = 2
LineKey(l) == ParsedLines[l].key
LineValue(l) == ParsedLines[l].value
HasKey(l, key) == IsDirective(l) /\ LineKey(l) = <<key>>

\* lines.lines() yields l next: a line of a file not read before is any line
\* (the file system is explored as it is read), of a file read before the
\* line it held then
NextLineIs(l) ==
    IF Top.replay
    THEN /\ Top.n < Len(fileText[Top.config_dir])
         /\ l = fileText[Top.config_dir][Top.n + 1]
    ELSE IF HasKey(l, "config") THEN budget.refs > 0 ELSE budget.lines > 0

AtEndOfFile == Top.replay => Top.n = Len(fileText[Top.config_dir])

KnownKeys == {"content", "groundcover", "fallback-archive", "fallback", "encoding",
              "config", "data", "resources", "user-data", "data-local", "replace"}

Origin == [file |-> Top.config_dir, line |-> Top.n + 1, seq |-> hist.clock + 1]

Consume(l) ==
    /\ fileText' = IF Top.replay THEN fileText
                   ELSE [fileText EXCEPT ![Top.config_dir] = Append(@, l)]
    /\ budget' = IF Top.replay THEN budget
                 ELSE IF HasKey(l, "config") THEN [budget EXCEPT !.refs = @ - 1]
                 ELSE [budget EXCEPT !.lines = @ - 1]

Call(op, arg, list, file) == [op |-> op, arg |-> arg, list |-> list, file |-> file]

\* the loop iteration for line l ends normally
LineDone(l, newSettings, comment, subs, variant) ==
    /\ settings' = newSettings
    /\ stack' = [stack EXCEPT ![Len(stack)] =
                    [Top EXCEPT !.n = @ + 1, !.queued_comment = comment,
                                !.sub_configs = subs]]
    /\ Consume(l)
    /\ lastCall' = Call("load", l, <<>>, Top.config_dir)
    /\ hist' = [hist EXCEPT !.clock = @ + 1,
                            !.last = IF variant = "" THEN @
                                     ELSE [@ EXCEPT ![variant] = hist.clock + 1]]
    /\ UNCHANGED <<written, root_config, status, error>>

\* a plausible slip: the line is reported and skipped, the load goes on
LineSkipped(l, err) ==
    LineDone(l, settings, Top.queued_comment, Top.sub_configs, "")

\* bail_config!: load returns Err through every activation, new() returns Err
LineFail(l, err) ==
    /\ status' = "failed"
    /\ error' = err
    /\ stack' = <<>>
    /\ Consume(l)
    /\ lastCall' = Call("load", l, <<>>, Top.config_dir)
    /\ hist' = [hist EXCEPT !.clock = @ + 1]
    /\ UNCHANGED <<written, root_config, settings>>

\* insert_dir_setting!: the directory the setting is tagged with (load() is
\* only ever called with the path of a file that exists, so the
\* not_file_or_directory arm is never taken)
ActualDir(config_dir) == IF IsDir(config_dir) THEN config_dir ELSE Parent(config_dir)

LoadBlankLine(Lines) ==
    \E l \in Lines :
        /\ Reading /\ NextLineIs(l) /\ IsBlank(l)
        /\ LineDone(l, settings, Top.queued_comment \o <<"\n">>, Top.sub_configs, "")

LoadCommentLine(Lines) ==
    \E l \in Lines :
        /\ Reading /\ NextLineIs(l) /\ IsComment(l)
        /\ LineDone(l, settings, Top.queued_comment \o l \o <<"\n">>,
                    Top.sub_configs, "")

LoadInvalidLine(Lines) ==
    \E l \in Lines :
        /\ Reading /\ NextLineIs(l)
        /\ ~IsBlank(l) /\ ~IsComment(l) /\ Len(LineTokens(l)) < 2
        /\ LineFail(l, ConfigError("InvalidLine", Trimmed(l), Top.config_dir))

\* a plausible slip: the file is pushed without the test for a duplicate
LoadFileUnchecked(l, key, variant, errKind) ==
    /\ Reading /\ NextLineIs(l) /\ HasKey(l, key)
    /\ LineDone(l, Append(settings,
                          FileSetting(variant, LineValue(l), Top.config_dir,
                                      Top.queued_comment, Origin)),
                <<>>, Top.sub_configs, variant)

\* the "content", "groundcover" and "fallback-archive" arms
LoadFile(l, key, variant, errKind) ==
    /\ Reading /\ NextLineIs(l) /\ HasKey(l, key)
    /\ IF HasFile(settings, variant, LineValue(l))
       THEN LineFail(l, ConfigError(errKind, LineValue(l), Top.config_dir))
       ELSE LineDone(l, Append(settings,
                                FileSetting(variant, LineValue(l), Top.config_dir,
                                            Top.queued_comment, Origin)),
                     <<>>, Top.sub_configs, variant)

LoadContent(Lines) ==
    \E l \in Lines : LoadFile(l, "content", "ContentFile", "DuplicateContentFile")

LoadGroundcover(Lines) ==
    \E l \in Lines : LoadFile(l, "groundcover", "Groundcover", "DuplicateGroundcoverFile")

LoadArchive(Lines) ==
    \E l \in Lines : LoadFile(l, "fallback-archive", "BethArchive", "DuplicateArchiveFile")

\* the "fallback" arm: set_game_setting(value, Some(config_dir), comment)
LoadFallback(Lines) ==
    \E l \in Lines :
        /\ Reading /\ NextLineIs(l) /\ HasKey(l, "fallback")
        /\ IF GameSettingOk(LineValue(l))
           THEN LineDone(l, Append(settings,
                                    GameSettingFrom(LineValue(l), Top.config_dir,
                                                    Top.queued_comment, Origin)),
                         <<>>, Top.sub_configs, "GameSetting")
           ELSE LineFail(l, ConfigError("InvalidGameSetting", LineValue(l),
                                        Top.config_dir))

\* the "encoding" arm: set_encoding(Some(EncodingSetting::try_from(..)?))
LoadEncoding(Lines) ==
    \E l \in Lines :
        /\ Reading /\ NextLineIs(l) /\ HasKey(l, "encoding")
        /\ IF EncodingOk(LineValue(l))
           THEN LineDone(l, SetSingleton(settings, "Encoding",
                                         <<EncodingFrom(LineValue(l), Top.config_dir,
                                                        Top.queued_comment, Origin)>>),
                         <<>>, Top.sub_configs, "Encoding")
           ELSE LineFail(l, ConfigError("BadEncoding", LineValue(l), Top.config_dir))

\* the "config" arm: the reference is queued with the pending comment
LoadConfigLine(l) ==
    /\ Reading /\ NextLineIs(l) /\ HasKey(l, "config")
    /\ LineDone(l, settings, <<>>,
                Append(Top.sub_configs,
                       [value |-> LineValue(l), comment |-> Top.queued_comment,
                        origin |-> Origin]),
                "")

LoadConfig(Lines) == \E l \in Lines : LoadConfigLine(l)

\* the file a config= value read in the current file refers to
RefTarget(value) ==
    Join(parse_data_directory(ActualDir(Top.config_dir), value), <<CfgName>>)

\* the same arm, for chains in which no file is referenced twice: the line
\* refers to a file that no line read so far refers to
LoadConfigTree(Lines) ==
    \E l \in Lines :
        /\ HasKey(l, "config")
        /\ Reading
        /\ RefTarget(LineValue(l)) \notin DOMAIN fileText
        /\ \A i \in 1..Len(Top.sub_configs) :
               Top.sub_configs[i].value # LineValue(l)
        /\ LoadConfigLine(l)

\* the "data", "resources", "user-data" and "data-local" arms
LoadDir(l, key, variant) ==
    /\ Reading /\ NextLineIs(l) /\ HasKey(l, key)
    /\ LineDone(l, Append(settings,
                          DirectorySetting(variant, LineValue(l),
                                           ActualDir(Top.config_dir),
                                           Top.queued_comment, Origin)),
                <<>>, Top.sub_configs, variant)

LoadData(Lines) == \E l \in Lines : LoadDir(l, "data", "DataDirectory")
LoadResources(Lines) == \E l \in Lines : LoadDir(l, "resources", "Resources")
LoadUserData(Lines) == \E l \in Lines : LoadDir(l, "user-data", "UserData")
LoadDataLocal(Lines) == \E l \in Lines : LoadDir(l, "data-local", "DataLocal")

\* a plausible slip: replace=config spares the SubConfiguration entries
ReplaceKeepsSubConfigs(S, root, value) ==
    LET what == ToLowercase(value)
    IN  CASE what = <<"content">> -> SetFiles(S, root, "ContentFile", <<>>)
          [] what = <<"data">> -> set_data_directories(S, root, <<>>)
          [] what = <<"fallback">> -> set_game_settings(S, root, <<>>)
          [] what = <<"fallback-archives">> -> SetFiles(S, root, "BethArchive", <<>>)
          [] what = <<"data-local">> -> SetSingleton(S, "DataLocal", <<>>)
          [] what = <<"resources">> -> SetSingleton(S, "Resources", <<>>)
          [] what = <<"user-data">> -> SetSingleton(S, "UserData", <<>>)
          [] what = <<"config">> -> SelectSeq(S, LAMBDA x : x.variant = "SubConfiguration")
          [] OTHER -> S

\* the "replace" arm, as a function of settings
Replace(S, root, value) ==
    LET what == ToLowercase(value)
    IN  CASE what = <<"content">> -> SetFiles(S, root, "ContentFile", <<>>)
          [] what = <<"data">> -> set_data_directories(S, root, <<>>)
          [] what = <<"fallback">> -> set_game_settings(S, root, <<>>)
          [] what = <<"fallback-archives">> -> SetFiles(S, root, "BethArchive", <<>>)
          [] what = <<"data-local">> -> SetSingleton(S, "DataLocal", <<>>)
          [] what = <<"resources">> -> SetSingleton(S, "Resources", <<>>)
          [] what = <<"user-data">> -> SetSingleton(S, "UserData", <<>>)
          [] what = <<"config">> -> <<>>
          [] OTHER -> S

LoadReplace(Lines) ==
    \E l \in Lines :
        /\ Reading /\ NextLineIs(l) /\ HasKey(l, "replace")
        /\ LineDone(l, Replace(settings, root_config, LineValue(l)),
                    Top.queued_comment, Top.sub_configs, "")

\* a plausible slip: the comment is cloned into the setting and not cleared
LoadGenericKeepsComment(Lines) ==
    \E l \in Lines :
        /\ Reading /\ NextLineIs(l) /\ IsDirective(l)
        /\ \A k \in KnownKeys : LineKey(l) # <<k>>
        /\ LineDone(l, Append(settings,
                              GenericSetting(LineKey(l), LineValue(l), Top.config_dir,
                                             Top.queued_comment, Origin)),
                    Top.queued_comment, Top.sub_configs, "Generic")

\* the default arm: any other key is kept as a GenericSetting
LoadGeneric(Lines) ==
    \E l \in Lines :
        /\ Reading /\ NextLineIs(l) /\ IsDirective(l)
        /\ \A k \in KnownKeys : LineKey(l) # <<k>>
        /\ LineDone(l, Append(settings,
                              GenericSetting(LineKey(l), LineValue(l), Top.config_dir,
                                             Top.queued_comment, Origin)),
                    <<>>, Top.sub_configs, "Generic")

\* the for loop over lines ends; what is left in queued_comment is dropped
EndOfFile ==
    /\ Reading /\ AtEndOfFile
    /\ stack' = [stack EXCEPT ![Len(stack)] = [Top EXCEPT !.phase = "subs"]]
    /\ lastCall' = Call("eof", <<>>, <<>>, Top.config_dir)
    /\ UNCHANGED <<written, root_config, settings, status, error, fileText, budget, hist>>

InSubs == status = "loading" /\ stack # <<>> /\ Top.phase = "subs"

\* the directory queued config= entries are resolved against
CfgDirOf(config_dir) == IF IsDir(config_dir) THEN config_dir ELSE Parent(config_dir)

\* a plausible slip: the queued entries are taken from the back
NextSubIndexFromBack(queue) == Len(queue)

\* sub_configs.into_iter(): the queued entry that is processed next
NextSubIndex(queue) == 1

TakeSub(queue) == queue[NextSubIndex(queue)]
RestSubs(queue) == RemoveAt(queue, NextSubIndex(queue))

\* sub_configs.into_iter().try_for_each, the directory holds an openmw.cfg:
\* push the SubConfiguration setting and call load() on the file
LoadSubConfig ==
    /\ InSubs /\ Top.sub_configs # <<>>
    /\ LET sub == TakeSub(Top.sub_configs)
           setting == DirectorySetting("SubConfiguration", sub.value,
                                       CfgDirOf(Top.config_dir), sub.comment,
                                       sub.origin)
           subconfig_path == Join(setting.parsed, <<CfgName>>)
       IN  /\ Exists(subconfig_path)
           /\ settings' = Append(settings, setting)
           /\ stack' = Append([stack EXCEPT ![Len(stack)] =
                                  [Top EXCEPT !.sub_configs = RestSubs(@)]],
                              Frame(subconfig_path, subconfig_path \in DOMAIN fileText))
           /\ fileText' = IF subconfig_path \in DOMAIN fileText THEN fileText
                          ELSE fileText @@ (subconfig_path :> <<>>)
           /\ lastCall' = Call("subconfig", sub.value, <<>>, Top.config_dir)
           /\ hist' = [hist EXCEPT !.last["SubConfiguration"] = sub.origin.seq,
                                   !.file = subconfig_path]
    /\ UNCHANGED <<written, root_config, status, error, budget>>

\* a plausible slip: the entry is pushed before the file is looked for
SkipSubConfigAfterPush ==
    /\ InSubs /\ Top.sub_configs # <<>>
    /\ LET sub == TakeSub(Top.sub_configs)
           setting == DirectorySetting("SubConfiguration", sub.value,
                                       CfgDirOf(Top.config_dir), sub.comment,
                                       sub.origin)
       IN  /\ ~Exists(Join(setting.parsed, <<CfgName>>))
           /\ settings' = Append(settings, setting)
           /\ stack' = [stack EXCEPT ![Len(stack)] =
                           [Top EXCEPT !.sub_configs = RestSubs(@)]]
           /\ lastCall' = Call("skip", sub.value, <<>>, Top.config_dir)
    /\ UNCHANGED <<written, root_config, status, error, fileText, budget, hist>>

\* ... the directory holds no openmw.cfg: the reference is skipped
SkipSubConfig ==
    /\ InSubs /\ Top.sub_configs # <<>>
    /\ LET sub == TakeSub(Top.sub_configs)
           setting == DirectorySetting("SubConfiguration", sub.value,
                                       CfgDirOf(Top.config_dir), sub.comment,
                                       sub.origin)
       IN  /\ ~Exists(Join(setting.parsed, <<CfgName>>))
           /\ stack' = [stack EXCEPT ![Len(stack)] =
                           [Top EXCEPT !.sub_configs = RestSubs(@)]]
           /\ lastCall' = Call("skip", sub.value, <<>>, Top.config_dir)
    /\ UNCHANGED <<written, root_config, settings, status, error, fileText, budget, hist>>

\* a plausible slip: the nested activation is never left
ReturnFromLoadKeepsFrame ==
    /\ InSubs /\ Top.sub_configs = <<>> /\ Len(stack) > 1
    /\ stack' = stack
    /\ lastCall' = Call("return", <<>>, <<>>, Top.config_dir)
    /\ UNCHANGED <<written, root_config, settings, status, error, fileText, budget, hist>>

\* a nested load() returns Ok(()) to the activation that called it
ReturnFromLoad ==
    /\ InSubs /\ Top.sub_configs = <<>> /\ Len(stack) > 1
    /\ stack' = SubSeq(stack, 1, Len(stack) - 1)
    /\ lastCall' = Call("return", <<>>, <<>>, Top.config_dir)
    /\ UNCHANGED <<written, root_config, settings, status, error, fileText, budget, hist>>

\* the two data directories new() derives from the effective resources entry
VfsSetting(resources, name, root) ==
    DirectorySetting("DataDirectory", PathToStr(resources.parsed \o <<<<name>>>>),
                     root, <<>>, ApiOrigin)

\* a plausible slip: the two entries in the order of the insert calls
WithVfsInCallOrder(S, root) ==
    LET res == GetSingleton(S, "Resources")
    IN  IF res = <<>> THEN S
        ELSE <<VfsSetting(res[1], "vfs-mw", root), VfsSetting(res[1], "vfs", root)>> \o S

\* settings.insert(0, morrowind_vfs); settings.insert(0, engine_vfs)
WithVfs(S, root) ==
    LET res == GetSingleton(S, "Resources")
    IN  IF res = <<>> THEN S
        ELSE <<VfsSetting(res[1], "vfs", root), VfsSetting(res[1], "vfs-mw", root)>> \o S

\* the root load() returns Ok(()) and new() finishes the configuration
NewOk ==
    /\ InSubs /\ Top.sub_configs = <<>> /\ Len(stack) = 1
    /\ stack' = <<>>
    /\ settings' = WithVfs(settings, root_config)
    /\ status' = "ready"
    /\ lastCall' = Call("new", <<>>, <<>>, root_config)
    /\ UNCHANGED <<written, root_config, error, fileText, budget, hist>>

----------------------------------------------------------------------------
(* Specifications                                                          *)

Variants == DirVariants \cup FileVariants \cup {"GameSetting", "Encoding", "Generic"}

\* OpenMWConfiguration::new(Some(path)) has resolved the root config file and
\* calls load() on it; the files of the chain hold at most `refs` config=
\* lines and `lines` other lines
InitWith(lines, refs) ==
    /\ root_config = RootConfigDir \o <<CfgName>>
    /\ settings = <<>>
    /\ stack = <<Frame(RootConfigDir \o <<CfgName>>, FALSE)>>
    /\ status = "loading"
    /\ error = NoError
    /\ fileText = (RootConfigDir \o <<CfgName>>) :> <<>>
    /\ budget = [lines |-> lines, refs |-> refs]
    /\ lastCall = Call("init", <<>>, <<>>, <<>>)
    /\ hist = [clock |-> 0, last |-> [v \in Variants |-> 0], calls |-> 0,
               file |-> RootConfigDir \o <<CfgName>>]
    /\ written = <<>>

\* the steps of load() that read no line
LoadControl ==
    \/ EndOfFile
    \/ LoadSubConfig
    \/ SkipSubConfig
    \/ ReturnFromLoad
    \/ NewOk

(* Chains of files that hold plain settings, encodings and references      *)
MaxChainLines == 4
MaxChainRefs == 3

InitChain == InitWith(MaxChainLines, MaxChainRefs)

NextChain ==
    \/ LoadGeneric(ChainLines)
    \/ LoadEncoding(ChainLines)
    \/ LoadConfigTree(ChainLines)
    \/ LoadControl

SpecChain == InitChain /\ [][NextChain]_vars

----------------------------------------------------------------------------
(* What the files of the chain say, read back from the file system         *)

\* the config files the config= lines of `file` refer to that exist, in
\* declaration order
RECURSIVE ChildrenIn(_, _)
ChildrenIn(dir, lines) ==
    IF lines = <<>> THEN <<>>
    ELSE LET l == Head(lines)
             target == Join(parse_data_directory(dir, LineValue(l)), <<CfgName>>)
         IN  (IF HasKey(l, "config") /\ Exists(target) THEN <<target>> ELSE <<>>)
                 \o ChildrenIn(dir, Tail(lines))

Children(file) == ChildrenIn(Parent(file), fileText[file])

\* depth-first pre-order of the chain below `file`, in declaration order
\* (for chains without cycles)
RECURSIVE Traversal(_)
RECURSIVE TraversalOfAll(_)
Traversal(file) == <<file>> \o TraversalOfAll(Children(file))
TraversalOfAll(files) ==
    IF files = <<>> THEN <<>>
    ELSE Traversal(Head(files)) \o TraversalOfAll(Tail(files))

\* every line of every file of the chain, as <<file, line number>>, in
\* that order
RECURSIVE LinesOfAll(_)
LinesOfAll(files) ==
    IF files = <<>> THEN <<>>
    ELSE [i \in 1..Len(fileText[Head(files)]) |-> <<Head(files), i>>]
             \o LinesOfAll(Tail(files))

\* <<file, line number>> of the directive behind each entry of S
OriginsOf(S) == [i \in 1..Len(S) |-> <<S[i].origin.file, S[i].origin.line>>]

\* a is b with some elements left out
RECURSIVE IsSubseq(_, _)
IsSubseq(a, b) ==
    IF a = <<>> THEN TRUE
    ELSE IF b = <<>> THEN FALSE
    ELSE IF Head(a) = Head(b) THEN IsSubseq(Tail(a), Tail(b))
    ELSE IsSubseq(a, Tail(b))

\* the entries made from the lines of the files (not the SubConfiguration
\* markers, not what new() derives)
OwnSettings(S) ==
    SelectSeq(S, LAMBDA x : x.variant # "SubConfiguration" /\ x.origin.file # <<>>)

FilesOf(S) == {S[i].origin.file : i \in 1..Len(S)}

----------------------------------------------------------------------------
(* C1 *)

\* C1 as stated: after load, the settings made from the files' own lines
\* stand in depth-first pre-order of the chain, declaration order (all of a
\* file's settings, then those of its first reference and of everything
\* below it, then the next reference)
C1_Original ==
    status = "ready" =>
        IsSubseq(OriginsOf(OwnSettings(settings)),
                 LinesOfAll(Traversal(root_config)))

\* C1: after load, the settings other than Encoding made from the files'
\* own lines stand in depth-first pre-order of the chain, declaration order
C1_TraversalOrder ==
    status = "ready" =>
        IsSubseq(OriginsOf(SelectSeq(OwnSettings(settings),
                                     LAMBDA x : x.variant # "Encoding")),
                 LinesOfAll(Traversal(root_config)))

\* A refers to B then C, B refers to D, every file has a setting after load
C1_Witness ==
    /\ status = "ready"
    /\ LET t == Traversal(root_config)
       IN  /\ Len(t) = 4
           /\ Children(t[1]) = <<t[2], t[4]>>
           /\ Children(t[2]) = <<t[3]>>
           /\ FilesOf(SelectSeq(settings, LAMBDA x : x.variant = "Generic"))
                 = {t[1], t[2], t[3], t[4]}

----------------------------------------------------------------------------
(* Chains of two files that hold file, directory and fallback entries and  *)
(* replace directives                                                      *)

MaxLoadLines == 3
MaxLoadRefs == 1

InitLoad == InitWith(MaxLoadLines, MaxLoadRefs)

NextLoad ==
    \/ LoadContent(LoadLines)
    \/ LoadGroundcover(LoadLines)
    \/ LoadArchive(LoadLines)
    \/ LoadFallback(LoadLines)
    \/ LoadData(LoadLines)
    \/ LoadUserData(LoadLines)
    \/ LoadDataLocal(LoadLines)
    \/ LoadResources(LoadLines)
    \/ LoadReplace(LoadLines)
    \/ LoadConfig(LoadLines)
    \/ LoadControl

SpecLoad == InitLoad /\ [][NextLoad]_vars

\* the entries of one category, and all the others, in settings order
OfVariant(S, variant) == SelectSeq(S, LAMBDA x : x.variant = variant)
NotOfVariant(S, variant) == SelectSeq(S, LAMBDA x : x.variant # variant)

\* the step just taken processed a line of the file being read
LineStep == lastCall'.op = "load" /\ status = "loading"

----------------------------------------------------------------------------
(* C3 *)

FileCats ==
    { [key |-> "content", variant |-> "ContentFile", err |-> "DuplicateContentFile"],
      [key |-> "fallback-archive", variant |-> "BethArchive",
       err |-> "DuplicateArchiveFile"],
      [key |-> "groundcover", variant |-> "Groundcover",
       err |-> "DuplicateGroundcoverFile"] }

C3_Step ==
    /\ \A c \in FileCats :
           ( /\ LineStep
             /\ HasKey(lastCall'.arg, c.key)
             /\ \E i \in 1..Len(settings) :
                    /\ settings[i].variant = c.variant
                    /\ settings[i].value = LineValue(lastCall'.arg) )
           => /\ status' = "failed"
              /\ error' = ConfigError(c.err, LineValue(lastCall'.arg), Top.config_dir)
              /\ settings' = settings
              /\ stack' = <<>>
    /\ status = "failed" => status' = "failed"

\* C3: a content=, fallback-archive= or groundcover= line whose value an
\* entry of the same category already holds, whichever file that entry came
\* from, makes load fail at once with the category's duplicate error, whose
\* config_path is the file being read; nothing is appended and the load
\* never yields a configuration
C3_DuplicateFails == [][C3_Step]_vars

\* the second content=a stood in the second file of the chain
C3_Witness ==
    /\ status = "failed"
    /\ error.kind = "DuplicateContentFile"
    /\ error.config_path # root_config
    /\ \E i \in 1..Len(settings) :
           /\ settings[i].variant = "ContentFile"
           /\ settings[i].value = error.value
           /\ settings[i].source_config = root_config

----------------------------------------------------------------------------
(* C4 *)

\* C4: after load, for user-data, data-local and resources, the getter
\* returns the entry made by the directive of that category processed last
\* (whenever an entry of the category is left at all)
C4_LastWins ==
    status = "ready" =>
        \A v \in {"UserData", "DataLocal", "Resources"} :
            IndicesOf(settings, v) # {} =>
                /\ Len(GetSingleton(settings, v)) = 1
                /\ GetSingleton(settings, v)[1].origin.seq = hist.last[v]

\* both files set user-data, both entries are there, the getter returns the
\* second file's
C4_Witness ==
    /\ status = "ready"
    /\ Cardinality(IndicesOf(settings, "UserData")) = 2
    /\ settings[Min(IndicesOf(settings, "UserData"))].origin.file = root_config
    /\ GetSingleton(settings, "UserData")[1].origin.file # root_config

----------------------------------------------------------------------------
(* C6 *)

ReplaceCats ==
    { [what |-> <<"data">>, key |-> "data", variant |-> "DataDirectory"],
      [what |-> <<"content">>, key |-> "content", variant |-> "ContentFile"],
      [what |-> <<"fallback">>, key |-> "fallback", variant |-> "GameSetting"],
      [what |-> <<"fallback-archives">>, key |-> "fallback-archive",
       variant |-> "BethArchive"] }

\* the line just processed is replace=<what>
ReplaceStep(what) ==
    /\ LineStep
    /\ HasKey(lastCall'.arg, "replace")
    /\ ToLowercase(LineValue(lastCall'.arg)) = what

C6_Step ==
    \A c \in ReplaceCats :
        /\ ReplaceStep(c.what) =>
               settings' = SelectSeq(settings, LAMBDA x : x.variant # c.variant)
        /\ ~ReplaceStep(c.what) /\ ~ReplaceStep(<<"config">>) =>
               IsSubseq(OfVariant(settings, c.variant), OfVariant(settings', c.variant))
        /\ LineStep /\ HasKey(lastCall'.arg, c.key) /\ status' # "failed" =>
               /\ Len(OfVariant(settings', c.variant))
                      = Len(OfVariant(settings, c.variant)) + 1
               /\ settings'[Len(settings')].variant = c.variant
               /\ settings'[Len(settings')].origin.seq = hist'.clock

\* C6: a replace=data line removes every DataDirectory entry accumulated so
\* far and keeps all other entries in order; no other step of load (but
\* replace=config) removes a DataDirectory entry, and a data= line appends
\* one; likewise replace=content, replace=fallback, replace=fallback-archives
\* for ContentFile, GameSetting, BethArchive
C6_ReplaceClears == [][C6_Step]_vars

\* the root file's data=a was dropped by the second file's replace=data, the
\* data=a that follows it is there after load
C6_Witness ==
    /\ status = "ready"
    /\ \E i \in 1..Len(fileText[root_config]) :
           fileText[root_config][i] = <<"data", "=", "a">>
    /\ \E f \in DOMAIN fileText :
           /\ f # root_config
           /\ fileText[f] = << <<"replace", "=", "data">>, <<"data", "=", "a">> >>
           /\ Len(OfVariant(settings, "DataDirectory")) = 1
           /\ OfVariant(settings, "DataDirectory")[1].origin.file = f

----------------------------------------------------------------------------
(* The mutation API, called on the configuration new() returned            *)

MaxCalls == 2

ApiEnabled == status = "ready" /\ hist.calls < MaxCalls

\* the call returns (), or Ok(())
ApiDone(op, arg, list, newSettings) ==
    /\ settings' = newSettings
    /\ error' = NoError
    /\ lastCall' = Call(op, arg, list, <<>>)
    /\ hist' = [hist EXCEPT !.calls = @ + 1]
    /\ UNCHANGED <<written, root_config, stack, status, fileText, budget>>

\* the call returns Err(err); the configuration stays with the caller
ApiFail(op, arg, list, newSettings, err) ==
    /\ settings' = newSettings
    /\ error' = err
    /\ lastCall' = Call(op, arg, list, <<>>)
    /\ hist' = [hist EXCEPT !.calls = @ + 1]
    /\ UNCHANGED <<written, root_config, stack, status, fileText, budget>>

\* a plausible slip: the new entry is put in front instead of at the end
AddFileAtFront(op, name, variant, errKind) ==
    /\ ApiEnabled
    /\ IF HasFile(settings, variant, name)
       THEN ApiFail(op, name, <<>>, settings,
                    ConfigError(errKind, FirstFile(settings, variant, name).value,
                                FirstFile(settings, variant, name).source_config))
       ELSE ApiDone(op, name, <<>>,
                    <<FileSetting(variant, name,
                                  Join(user_config_path(settings, root_config),
                                       <<CfgName>>),
                                  <<>>, ApiOrigin)>> \o settings)

\* add_content_file / add_groundcover_file / add_archive_file
AddFile(op, name, variant, errKind) ==
    /\ ApiEnabled
    /\ IF HasFile(settings, variant, name)
       THEN LET duplicate == FirstFile(settings, variant, name)
            IN  ApiFail(op, name, <<>>, settings,
                        ConfigError(errKind, duplicate.value, duplicate.source_config))
       ELSE ApiDone(op, name, <<>>,
                    Append(settings,
                           FileSetting(variant, name,
                                       Join(user_config_path(settings, root_config),
                                            <<CfgName>>),
                                       <<>>, ApiOrigin)))

AddContentFile(Names) ==
    \E name \in Names :
        AddFile("add_content_file", name, "ContentFile", "CannotAddContentFile")

AddGroundcoverFile(Names) ==
    \E name \in Names :
        AddFile("add_groundcover_file", name, "Groundcover", "CannotAddGroundcoverFile")

AddArchiveFile(Names) ==
    \E name \in Names :
        AddFile("add_archive_file", name, "BethArchive", "DuplicateArchiveFile")

\* a plausible slip: the entries are matched by name only
RemoveFileOfAnyKind(op, name, variant) ==
    /\ ApiEnabled
    /\ ApiDone(op, name, <<>>,
               clear_matching(settings, LAMBDA x : x.value = name))

\* remove_content_file / remove_groundcover_file / remove_archive_file
RemoveFile(op, name, variant) ==
    /\ ApiEnabled
    /\ ApiDone(op, name, <<>>,
               clear_matching(settings,
                              LAMBDA x : x.variant = variant /\ x.value = name))

RemoveContentFile(Names) ==
    \E name \in Names : RemoveFile("remove_content_file", name, "ContentFile")

RemoveGroundcoverFile(Names) ==
    \E name \in Names : RemoveFile("remove_groundcover_file", name, "Groundcover")

RemoveArchiveFile(Names) ==
    \E name \in Names : RemoveFile("remove_archive_file", name, "BethArchive")

RemoveDataDirectory(Dirs) ==
    \E data_dir \in Dirs :
        /\ ApiEnabled
        /\ ApiDone("remove_data_directory", data_dir, <<>>,
                   clear_matching(settings,
                                  LAMBDA x : /\ x.variant = "DataDirectory"
                                             /\ \/ x.parsed = data_dir
                                                \/ x.value = PathToStr(data_dir)))

AddDataDirectory(Dirs) ==
    \E dir \in Dirs :
        /\ ApiEnabled
        /\ ApiDone("add_data_directory", dir, <<>>,
                   Append(settings,
                          DirectorySetting("DataDirectory", PathToStr(dir),
                                           Join(user_config_path(settings, root_config),
                                                <<CfgName>>),
                                           <<>>, ApiOrigin)))

SetContentFiles(Lists) ==
    \E plugins \in Lists :
        /\ ApiEnabled
        /\ ApiDone("set_content_files", <<>>, plugins,
                   SetFiles(settings, root_config, "ContentFile", plugins))

SetFallbackArchives(Lists) ==
    \E archives \in Lists :
        /\ ApiEnabled
        /\ ApiDone("set_fallback_archives", <<>>, archives,
                   SetFiles(settings, root_config, "BethArchive", archives))

SetDataDirectories(Lists) ==
    \E dirs \in Lists :
        /\ ApiEnabled
        /\ ApiDone("set_data_directories", <<>>, dirs,
                   set_data_directories(settings, root_config, dirs))

\* set_game_settings: Err at the first element that is no key,value pair, with
\* the category cleared and the elements before it pushed
SetGameSettings(Lists) ==
    \E list \in Lists :
        /\ ApiEnabled
        /\ LET new == set_game_settings(settings, root_config, list)
               bad == IF list = <<>> THEN 0 ELSE FirstInvalid(list[1])
           IN  IF bad = 0
               THEN ApiDone("set_game_settings", <<>>, list, new)
               ELSE ApiFail("set_game_settings", <<>>, list, new,
                            ConfigError("InvalidGameSetting", list[1][bad],
                                        user_config_path(
                                            ClearVariant(settings, "GameSetting"),
                                            root_config)))

\* set_game_setting(base_value, None, &mut String::default())
SetGameSetting(Values) ==
    \E base_value \in Values :
        /\ ApiEnabled
        /\ IF GameSettingOk(base_value)
           THEN ApiDone("set_game_setting", base_value, <<>>,
                        Append(settings,
                               GameSettingFrom(base_value,
                                               user_config_path(settings, root_config),
                                               <<>>, ApiOrigin)))
           ELSE ApiFail("set_game_setting", base_value, <<>>, settings,
                        ConfigError("InvalidGameSetting", base_value,
                                    user_config_path(settings, root_config)))

\* impl_singleton_setting! $set_fn, new is Option<$in_type>
SetSingletonSetting(op, variant, new) ==
    /\ ApiEnabled
    /\ ApiDone(op, new, <<>>, SetSingleton(settings, variant, new))

\* the DirectorySetting a caller makes for a singleton setter
CallerDir(variant, value) ==
    DirectorySetting(variant, value, user_config_path(settings, root_config),
                     <<>>, ApiOrigin)

SetUserdata(Values) ==
    \E new \in {<<>>} \cup {<<CallerDir("UserData", v)>> : v \in Values} :
        SetSingletonSetting("set_userdata", "UserData", new)

SetResources(Values) ==
    \E new \in {<<>>} \cup {<<CallerDir("Resources", v)>> : v \in Values} :
        SetSingletonSetting("set_resources", "Resources", new)

SetDataLocal(Values) ==
    \E new \in {<<>>} \cup {<<CallerDir("DataLocal", v)>> : v \in Values} :
        SetSingletonSetting("set_data_local", "DataLocal", new)

SetEncoding(Values) ==
    \E new \in {<<>>} \cup
               {<<EncodingFrom(v, user_config_path(settings, root_config),
                               <<>>, ApiOrigin)>> : v \in Values} :
        SetSingletonSetting("set_encoding", "Encoding", new)

----------------------------------------------------------------------------
(* Configurations loaded from short chains, then changed through the API   *)

MaxApiLines == 2
MaxApiRefs == 1

\* arguments of the calls; Option<Vec<T>> is <<>> for None, <<list>> for Some
ApiNames == {<<"a">>, <<"b">>}
ApiFileLists ==
    { <<>>, << <<>> >>, << << <<"a">> >> >>, << << <<"a">>, <<"a">> >> >>,
      << << <<"a">>, <<"b">> >> >> }
ApiDirs == {<<RootDir, <<"d">>>>}
ApiDirLists == {<<>>, << << <<RootDir, <<"d">>>> >> >>}
ApiGameLists ==
    { <<>>, << << <<"k", ",", "3">> >> >>, << << <<"k", ",", "3">>, <<"j">> >> >> }
ApiDirValues == {<<"c">>}
ApiEncodings == {<<"win1251">>}

InitApi == InitWith(MaxApiLines, MaxApiRefs)

NextApi ==
    \/ LoadContent(ApiLines)
    \/ LoadUserData(ApiLines)
    \/ LoadFallback(ApiLines)
    \/ LoadConfig(ApiLines)
    \/ LoadControl
    \/ AddContentFile(ApiNames)
    \/ AddGroundcoverFile(ApiNames)
    \/ AddArchiveFile(ApiNames)
    \/ RemoveContentFile(ApiNames)
    \/ RemoveGroundcoverFile(ApiNames)
    \/ RemoveArchiveFile(ApiNames)
    \/ RemoveDataDirectory(ApiDirs)
    \/ AddDataDirectory(ApiDirs)
    \/ SetContentFiles(ApiFileLists)
    \/ SetFallbackArchives(ApiFileLists)
    \/ SetDataDirectories(ApiDirLists)
    \/ SetGameSettings(ApiGameLists)
    \/ SetUserdata(ApiDirValues)
    \/ SetResources(ApiDirValues)
    \/ SetDataLocal(ApiDirValues)
    \/ SetEncoding(ApiEncodings)

SpecApi == InitApi /\ [][NextApi]_vars

----------------------------------------------------------------------------
(* C2 *)

\* C2: in the configuration a load returned, after any API calls, no two
\* ContentFile entries hold the same value, nor two BethArchive entries, nor
\* two Groundcover entries
C2_NoDuplicates ==
    status = "ready" =>
        \A i, j \in 1..Len(settings) :
            /\ i # j
            /\ settings[i].variant \in FileVariants
            /\ settings[i].variant = settings[j].variant
            => settings[i].value # settings[j].value

----------------------------------------------------------------------------
(* C5 *)

Setters ==
    { [op |-> "set_userdata", variant |-> "UserData"],
      [op |-> "set_data_local", variant |-> "DataLocal"],
      [op |-> "set_resources", variant |-> "Resources"],
      [op |-> "set_encoding", variant |-> "Encoding"] }

C5_Step ==
    \A c \in Setters :
        ( /\ status = "ready"
          /\ hist'.calls = hist.calls + 1
          /\ lastCall'.op = c.op
          /\ lastCall'.arg # <<>> )
        => /\ GetSingleton(settings', c.variant) = lastCall'.arg
           /\ IF IndicesOf(settings, c.variant) # {}
              THEN Cardinality(IndicesOf(settings', c.variant))
                       = Cardinality(IndicesOf(settings, c.variant))
              ELSE settings' = Append(settings, lastCall'.arg[1])

\* C5: after set_X(Some(v)) the getter of the category returns v, however
\* many entries of the category there were; with an entry there before the
\* number of entries of the category is unchanged, otherwise v is appended
C5_SetThenGet == [][C5_Step]_vars

----------------------------------------------------------------------------
(* C10 *)

\* the keys of the GameSetting entries
GameSettingKeys(S) == {S[i].key : i \in IndicesOf(S, "GameSetting")}

\* the last GameSetting entry with this key
LastWithKey(S, key) ==
    S[Max({i \in IndicesOf(S, "GameSetting") : S[i].key = key})]

\* C10: game_settings() yields one entry for each key that occurs among the
\* GameSetting entries, the last one with that key in settings order
C10_OnePerKey ==
    status = "ready" =>
        LET yielded == game_settings(settings)
        IN  /\ Len(yielded) = Cardinality(GameSettingKeys(settings))
            /\ \A key \in GameSettingKeys(settings) :
                   \E n \in 1..Len(yielded) : yielded[n] = LastWithKey(settings, key)

----------------------------------------------------------------------------
(* set_game_setting on fallback texts of every shape                       *)

MaxTokens == 4

\* comma-separated tokens: a u8, a number too large for u8, a word
ValueTokens == {<<"1">>, <<"2", "5", "6">>, <<"x">>}

RECURSIVE JoinComma(_)
JoinComma(tokens) ==
    IF Len(tokens) = 1 THEN tokens[1]
    ELSE tokens[1] \o <<",">> \o JoinComma(Tail(tokens))

TokenTexts ==
    {JoinComma(ts) : ts \in UNION {[1..n -> ValueTokens] : n \in 1..MaxTokens}}

\* number literals at the edges of u8, i64 and the float grammar
NumberTexts ==
    { <<>>, <<"-">>, <<".">>, <<"-", "1">>, <<"+", "1">>, <<"0", "0", "7">>,
      <<"1", ".", "5">>, <<"1", ".">>, <<".", "5">>, <<"-", "0", ".", "5", "0">>,
      <<"1", ".", "5", ".", "2">>, <<"x", ".", "y">>, <<"1", "e", "2">>,
      <<"1", ".", "5", "e", "2">>, <<" ", "1">>,
      <<"2", "5", "5", ",", "0", ",", "+", "1">>,
      <<"1", ",", " ", "2", ",", "3">>,
      <<"1", ".", "5", ",", "2", ",", "3">>,
      I64Max, I64MinMagnitude, <<"-">> \o I64MinMagnitude,
      <<"-">> \o I64Max \o <<"0">> }

\* the texts handed to set_game_setting: key k, or no comma at all
FallbackValues ==
    {<<"k", ",">> \o t : t \in TokenTexts \cup NumberTexts} \cup {<<"k">>}

\* new() on an empty root config file, then set_game_setting calls
InitParse == InitWith(0, 0)

NextParse ==
    \/ EndOfFile
    \/ NewOk
    \/ SetGameSetting(FallbackValues)

SpecParse == InitParse /\ [][NextParse]_vars

\* set_game_setting has just returned Ok: the text it was given, split at
\* its first comma, and the entry it pushed
Parsed == lastCall'.op = "set_game_setting" /\ status = "ready"
           /\ hist'.calls = hist.calls + 1 /\ error' = NoError
FirstComma == Min({i \in 1..Len(lastCall'.arg) : lastCall'.arg[i] = ","})
KeyText == SubSeq(lastCall'.arg, 1, FirstComma - 1)
ValueText == SubSeq(lastCall'.arg, FirstComma + 1, Len(lastCall'.arg))
Pushed == settings'[Len(settings')]

----------------------------------------------------------------------------
(* C8 *)

C8_Step ==
    Parsed =>
        ( Pushed.gtype = "Color"
          <=> /\ Len(Split(ValueText, ",")) = 3
              /\ \A i \in 1..3 : ParsesU8(Trim(Split(ValueText, ",")[i])) )

\* C8: a fallback value is Color exactly when splitting it on commas gives
\* three tokens and each of them (surrounding blanks aside) parses as u8
C8_ColorIffThreeU8 == [][C8_Step]_vars

----------------------------------------------------------------------------
(* C9 *)

C9_Step ==
    Parsed =>
        /\ settings' = Append(settings, Pushed)
        /\ Pushed.key = KeyText
        /\ Pushed.gtype # "Color" =>
               LET float == Contains(ValueText, ".") /\ ParsesF64(ValueText)
                   int == ParsesI64(ValueText)
               IN  /\ Pushed.gtype = "Float" <=> float
                   /\ Pushed.gtype = "Int" <=> ~float /\ int
                   /\ Pushed.gtype = "String" <=> ~float /\ ~int
                   /\ Pushed.gtype = "String" => Pushed.value = ValueText
        /\ ValueText \in {I64Max, <<"-">> \o I64MinMagnitude, <<"0", "0", "7">>,
                          <<"-", "1">>, <<"+", "1">>}
               => Pushed.gtype = "Int"
        /\ ValueText \in {I64MinMagnitude, <<"-">> \o I64Max \o <<"0">>,
                          <<"1", "e", "2">>, <<"x", ".", "y">>, <<".">>,
                          <<"1", ".", "5", ".", "2">>, <<"x">>, <<"x", ",", "x">>,
                          <<>>, <<" ", "1">>}
               => Pushed.gtype = "String"
        /\ ValueText \in {<<"1", ".", "5">>, <<"1", ".">>, <<".", "5">>,
                          <<"1", ".", "5", "e", "2">>, <<"-", "0", ".", "5", "0">>}
               => Pushed.gtype = "Float"

\* C9: the key of a fallback entry is the text before its first comma, the
\* value all the text after it; a value that is no Color is Float exactly
\* when it holds a '.' and parses as f64, else Int exactly when it parses as
\* i64 (a literal beyond the i64 range does not), else String with the
\* value text as given, commas included
C9_KindOfValue == [][C9_Step]_vars

\* the literal one above i64::MAX was kept as a String, and so was a text
\* with commas in it
C9_Witness ==
    /\ Len(settings) = 2
    /\ settings[1].gtype = "String" /\ settings[1].value = I64MinMagnitude
    /\ settings[2].gtype = "String" /\ settings[2].value = <<"x", ",", "2", "5", "6">>
    /\ settings[2].key = <<"k">>

----------------------------------------------------------------------------
(* The serializer: Display for SettingValue, save_user, save_subconfig     *)

\* the key each variant is printed with
DisplayKey(variant) ==
    CASE variant = "UserData" -> "user-data"
      [] variant = "DataLocal" -> "data-local"
      [] variant = "Resources" -> "resources"
      [] variant = "DataDirectory" -> "data"
      [] variant = "SubConfiguration" -> "config"
      [] variant = "ContentFile" -> "content"
      [] variant = "BethArchive" -> "fallback-archive"
      [] variant = "Groundcover" -> "groundcover"
      [] variant = "Encoding" -> "encoding"

\* impl Display for SettingValue (to_string): only EncodingType's Display
\* ends its text with a newline
SettingToString(x) ==
    CASE x.variant = "GameSetting" -> GameSettingToString(x)
      [] x.variant = "Generic" -> x.comment \o x.key \o <<"=">> \o x.value
      [] x.variant = "Encoding" ->
             x.comment \o <<"encoding", "=">> \o x.value \o <<"\n">>
      [] OTHER -> x.comment \o <<DisplayKey(x.variant), "=">> \o x.value

\* a plausible slip: every entry is written, whichever file it came from
RECURSIVE SettingsStringUnfiltered(_, _)
SettingsStringUnfiltered(S, cfg_path) ==
    IF S = <<>> THEN <<>>
    ELSE SettingToString(Head(S)) \o SettingsStringUnfiltered(Tail(S), cfg_path)

\* settings_matching(|s| s.meta().source_config == cfg_path), each entry's
\* to_string() pushed onto the text
RECURSIVE SettingsString(_, _)
SettingsString(S, cfg_path) ==
    IF S = <<>> THEN <<>>
    ELSE (IF Head(S).source_config = cfg_path THEN SettingToString(Head(S)) ELSE <<>>)
             \o SettingsString(Tail(S), cfg_path)

\* write_config: the file is created or truncated and holds the text
WriteConfig(config_string, path) ==
    written' = [f \in DOMAIN written \cup {path} |->
                   IF f = path THEN config_string ELSE written[f]]

SaveDone(op, target_dir) ==
    /\ WriteConfig(SettingsString(settings, Join(target_dir, <<CfgName>>)),
                   Join(target_dir, <<CfgName>>))
    /\ lastCall' = Call(op, target_dir, <<>>, Join(target_dir, <<CfgName>>))
    /\ UNCHANGED <<root_config, settings, stack, status, error, fileText, budget, hist>>

\* the save returns Err(String): nothing is written
SaveRefused(op, target_dir) ==
    /\ lastCall' = Call(op, target_dir, <<"refused">>, <<>>)
    /\ UNCHANGED <<written, root_config, settings, stack, status, error, fileText,
                   budget, hist>>

\* save_user; can_write_to_dir is the environment's answer
SaveUser ==
    \E writable \in BOOLEAN :
        /\ status = "ready"
        /\ LET target_dir == user_config_path(settings, root_config)
           IN  IF IsDir(target_dir) /\ writable
               THEN SaveDone("save_user", target_dir)
               ELSE SaveRefused("save_user", target_dir)

\* save_subconfig(target_dir)
SaveSubconfig(Dirs) ==
    \E target_dir \in Dirs, writable \in BOOLEAN :
        /\ status = "ready"
        /\ LET subconfig_is_loaded ==
                   \E i \in 1..Len(settings) :
                       /\ settings[i].variant = "SubConfiguration"
                       /\ \/ settings[i].parsed = target_dir
                          \/ settings[i].value = PathToStr(target_dir)
           IN  IF IsDir(target_dir) /\ writable /\ subconfig_is_loaded
               THEN SaveDone("save_subconfig", target_dir)
               ELSE SaveRefused("save_subconfig", target_dir)

----------------------------------------------------------------------------
(* Chains of commented files, loaded and saved without a change            *)

MaxSaveLines == 3
MaxSaveRefs == 1

SaveDirs == {RootConfigDir \o << <<"b">> >>, RootConfigDir \o << <<"m">> >>}

InitSave == InitWith(MaxSaveLines, MaxSaveRefs)

NextSave ==
    \/ LoadBlankLine(SaveLines)
    \/ LoadCommentLine(SaveLines)
    \/ LoadGeneric(SaveLines)
    \/ LoadContent(SaveLines)
    \/ LoadData(SaveLines)
    \/ LoadEncoding(SaveLines)
    \/ LoadConfig(SaveLines)
    \/ LoadControl
    \/ SaveUser
    \/ SaveSubconfig(SaveDirs)

SpecSave == InitSave /\ [][NextSave]_vars

\* the bytes of a file whose lines are `lines`, each ended by a newline
RECURSIVE FileBytes(_)
FileBytes(lines) ==
    IF lines = <<>> THEN <<>>
    ELSE Head(lines) \o <<"\n">> \o FileBytes(Tail(lines))

----------------------------------------------------------------------------
(* C7 *)

\* C7: with no setting changed through the API, the text save_user or
\* save_subconfig writes for a file of the chain is the file as it was
\* read: every comment block and every key=value line, in order, each
\* directive on a line of its own ended by a newline
C7_RoundTrip ==
    hist.calls = 0 =>
        \A f \in DOMAIN written : written[f] = FileBytes(fileText[f])

----------------------------------------------------------------------------
(* C11 *)

AddOps ==
    { [op |-> "add_content_file", variant |-> "ContentFile"],
      [op |-> "add_archive_file", variant |-> "BethArchive"],
      [op |-> "add_groundcover_file", variant |-> "Groundcover"] }

\* a step of the mutation API
ApiStep == status = "ready" /\ hist'.calls = hist.calls + 1

C11_Step ==
    \A c \in AddOps :
        (ApiStep /\ lastCall'.op = c.op) =>
            LET name == lastCall'.arg
                present == {i \in 1..Len(settings) :
                               /\ settings[i].variant = c.variant
                               /\ settings[i].value = name}
            IN  IF present # {}
                THEN /\ settings' = settings
                     /\ error'.kind # "none"
                     /\ error'.value = name
                     /\ \E i \in present :
                            /\ error'.config_path = settings[i].source_config
                            /\ settings[i].origin.seq # 0
                                   => error'.config_path = settings[i].origin.file
                ELSE /\ error' = NoError
                     /\ Len(settings') = Len(settings) + 1
                     /\ SubSeq(settings', 1, Len(settings)) = settings
                     /\ settings'[Len(settings')].variant = c.variant
                     /\ settings'[Len(settings')].value = name

\* C11: add_content_file, add_archive_file and add_groundcover_file with a
\* name the category already holds return an error that carries the name and
\* the file that defined the entry holding it, and leave settings as they
\* were; with a new name they append one entry of the category at the end and
\* leave every other entry where it was
C11_AddFile == [][C11_Step]_vars

\* add_groundcover_file appended an entry, then add_content_file was refused
\* for a name that a sub-configuration's file had defined
C11_Witness ==
    /\ status = "ready"
    /\ hist.calls = 2
    /\ lastCall.op = "add_content_file"
    /\ error.kind = "CannotAddContentFile"
    /\ error.value = lastCall.arg
    /\ error.config_path # root_config
    /\ \E i \in 1..Len(settings) :
           settings[i].variant = "Groundcover" /\ settings[i].origin = ApiOrigin

----------------------------------------------------------------------------
(* Chains of files with malformed lines                                    *)

MaxErrLines == 2
MaxErrRefs == 1

InitErr == InitWith(MaxErrLines, MaxErrRefs)

NextErr ==
    \/ LoadBlankLine(ErrLines)
    \/ LoadCommentLine(ErrLines)
    \/ LoadInvalidLine(ErrLines)
    \/ LoadContent(ErrLines)
    \/ LoadFallback(ErrLines)
    \/ LoadEncoding(ErrLines)
    \/ LoadConfig(ErrLines)
    \/ LoadControl

SpecErr == InitErr /\ [][NextErr]_vars

----------------------------------------------------------------------------
(* C12 *)

\* the symbol occurs nowhere in the text
Without(s, sym) == \A i \in 1..Len(s) : s[i] # sym

\* the load was aborted with this error, raised for the file being read
Aborted(kind, text) ==
    /\ status' = "failed"
    /\ error' = ConfigError(kind, text, Top.config_dir)
    /\ stack' = <<>>

C12_Step ==
    /\ LineStep =>
           LET l == lastCall'.arg
               t == Trim(l)
           IN  /\ (t # <<>> /\ t[1] # "#" /\ Without(t, "="))
                      => Aborted("InvalidLine", t)
               /\ (HasKey(l, "fallback") /\ Without(LineValue(l), ","))
                      => Aborted("InvalidGameSetting", LineValue(l))
               /\ (HasKey(l, "encoding")
                      /\ LineValue(l) \notin {<<"win1250">>, <<"win1251">>, <<"win1252">>})
                      => Aborted("BadEncoding", LineValue(l))
    /\ status = "failed" => UNCHANGED <<status, error, settings, stack>>

\* C12: during load a line that is neither blank nor a comment and holds no
\* '=', a fallback= value without a comma, and an encoding= value other than
\* win1250, win1251, win1252 each abort the whole load with InvalidLine,
\* InvalidGameSetting, BadEncoding, carrying the offending text and the path
\* of the file being read, in whichever file of the chain the line stands;
\* the load then never yields a configuration
C12_MalformedAborts == [][C12_Step]_vars

\* the line without '=' stood in the file of a sub-configuration, after the
\* root file had given an entry
C12_Witness ==
    /\ status = "failed"
    /\ error.kind = "InvalidLine"
    /\ error.value = <<"x">>
    /\ error.config_path = RootConfigDir \o << <<"b">>, CfgName >>
    /\ settings # <<>>

----------------------------------------------------------------------------
(* Files whose data= lines hold values of every shape the resolver knows    *)

MaxPathLines == 2
MaxPathRefs == 1

InitPath == InitWith(MaxPathLines, MaxPathRefs)

NextPath ==
    \/ LoadData(PathLines)
    \/ LoadConfig(PathLines)
    \/ LoadControl

SpecPath == InitPath /\ [][NextPath]_vars

\* the entries made from data= lines
DataEntries == {i \in 1..Len(settings) : settings[i].variant = "DataDirectory"
                                          /\ settings[i].origin.seq # 0}

\* the directory that holds the file whose line made the entry
DeclaringDir(x) == Parent(x.origin.file)

\* the text that follows the token, leading separators stripped
AfterToken(value, token) == TrimStartSep(SubSeq(value, Len(token) + 1, Len(value)))

----------------------------------------------------------------------------
(* C13 *)

Tokens ==
    { [token |-> UserdataToken, dir |-> default_userdata_path],
      [token |-> UserconfigToken, dir |-> default_config_path] }

\* C13: a value that begins with ?userdata? or ?userconfig? resolves to the
\* default user-data directory, respectively the default config directory,
\* joined with the text that follows the token, its leading separators
\* stripped, whatever the directory of the declaring file:
\* ?userconfig?/bar is <default config directory>/bar
C13_TokenPaths ==
    \A i \in DataEntries :
        \A k \in Tokens :
            StartsWith(settings[i].value, k.token)
                => settings[i].parsed
                       = k.dir \o Components(ReplaceSep(AfterToken(settings[i].value,
                                                                  k.token)))

\* the part of C13 about ?userdata? alone
C13_UserdataPaths ==
    \A i \in DataEntries :
        StartsWith(settings[i].value, UserdataToken)
            => settings[i].parsed
                   = default_userdata_path
                       \o Components(ReplaceSep(AfterToken(settings[i].value,
                                                           UserdataToken)))

----------------------------------------------------------------------------
(* C14 *)

\* the character at i stands behind an '&' that is itself not escaped
RECURSIVE Escaped(_, _)
Escaped(s, i) == i > 2 /\ s[i - 1] = "&" /\ ~Escaped(s, i - 1)

\* index of the closing quote: the first '"' after the opening one that is
\* not escaped; one past the end when there is none
ClosingQuote(s) ==
    LET Q == {i \in 2..Len(s) : s[i] = "\"" /\ ~Escaped(s, i)}
    IN  IF Q = {} THEN Len(s) + 1 ELSE CHOOSE i \in Q : \A j \in Q : i <= j

\* the characters at lo..hi with every escaping '&' left out
RECURSIVE Kept(_, _, _)
Kept(s, lo, hi) ==
    IF lo > hi THEN <<>>
    ELSE (IF s[lo] = "&" /\ ~Escaped(s, lo) THEN <<>> ELSE <<s[lo]>>)
             \o Kept(s, lo + 1, hi)

UnquotedText(s) == Kept(s, 2, ClosingQuote(s) - 1)

\* an unquoted text resolved against a directory
ResolveUnquoted(dir, text) ==
    IF StartsWith(text, <<"\"">>)
    THEN strip_special_components(Join(dir, Components(ReplaceSep(text))))
    ELSE parse_data_directory(dir, text)

\* C14: a value that starts with a double quote stands for the characters
\* between the opening quote and the first quote that is not escaped (the
\* end of the value when there is none), every escaping '&' dropped and the
\* character behind it kept as it is; what follows the closing quote is
\* ignored; that text is resolved against the declaring file's directory as
\* an unquoted value is
C14_Quoted ==
    \A i \in DataEntries :
        StartsWith(settings[i].value, <<"\"">>)
            => settings[i].parsed
                   = ResolveUnquoted(DeclaringDir(settings[i]),
                                     UnquotedText(settings[i].value))

\* "foo&"bar"baz in the file of the sub-configuration b named the directory
\* foo"bar below b
C14_Witness ==
    \E i \in DataEntries :
        /\ settings[i].value = <<"\"", "foo", "&", "\"", "bar", "\"", "baz">>
        /\ settings[i].parsed = RootConfigDir \o << <<"b">>, <<"foo", "\"", "bar">> >>

----------------------------------------------------------------------------
(* C15 *)

\* comps with the elements at the indices in gone left out
Without2(comps, gone) ==
    LET keep == {i \in 1..Len(comps) : i \notin gone}
        nth(n) == CHOOSE i \in keep : Cardinality({j \in keep : j < i}) = n - 1
    IN  [n \in 1..Cardinality(keep) |-> comps[nth(n)]]

\* every "." dropped; then, as long as a ".." is left, the first ".." goes
\* together with the component before it, unless that is the root or there
\* is none
RECURSIVE Cancelled(_)
Cancelled(comps) ==
    LET dots == {i \in 1..Len(comps) : comps[i] = CurDir}
        ups == {i \in 1..Len(comps) : comps[i] = ParentDir}
    IN  IF dots # {} THEN Cancelled(Without2(comps, dots))
        ELSE IF ups = {} THEN comps
        ELSE LET j == CHOOSE i \in ups : \A k \in ups : i <= k
             IN  IF j > 1 /\ comps[j - 1] # RootDir
                 THEN Cancelled(Without2(comps, {j - 1, j}))
                 ELSE Cancelled(Without2(comps, {j}))

\* the entries whose value is a plain path: no quote, no token
PlainEntries == {i \in DataEntries : settings[i].value \in DottedValues}

\* C15: the resolved path holds no "." and no ".." component: each "." is
\* dropped, each ".." takes away the nearest component left before it and
\* never the root, the root is kept; normalizing the result again changes
\* nothing; foo/./bar/../baz under directory C gives C/foo/baz
C15_Normalized ==
    /\ \A i \in DataEntries :
           /\ \A n \in 1..Len(settings[i].parsed) :
                  settings[i].parsed[n] \notin {CurDir, ParentDir}
           /\ strip_special_components(settings[i].parsed) = settings[i].parsed
           /\ settings[i].parsed[1] = RootDir
    /\ \A i \in PlainEntries :
           settings[i].parsed
               = Cancelled(Join(DeclaringDir(settings[i]),
                                Components(ReplaceSep(settings[i].value))))
    /\ \A i \in DataEntries :
           settings[i].value = <<"foo", "/", ".", "/", "bar", "/", ".", ".", "/", "baz">>
               => settings[i].parsed
                      = DeclaringDir(settings[i]) \o << <<"foo">>, <<"baz">> >>

\* in the file of the sub-configuration b, foo/./bar/../baz gave b/foo/baz
\* and ../../../foo, with more ".." than directories above, gave /foo
C15_Witness ==
    /\ Len(settings) >= 3
    /\ settings[2].value = <<"foo", "/", ".", "/", "bar", "/", ".", ".", "/", "baz">>
    /\ settings[2].parsed = RootConfigDir \o << <<"b">>, <<"foo">>, <<"baz">> >>
    /\ settings[3].value = <<".", ".", "/", ".", ".", "/", ".", ".", "/", "foo">>
    /\ settings[3].parsed = <<RootDir, <<"foo">>>>

----------------------------------------------------------------------------
(* Directory settings made by load and by the API                          *)

MaxDirLines == 2
MaxDirRefs == 1

\* an absolute directory and a relative one
DirArgs == {<<RootDir, <<"d">>>>, << <<"e">> >>}
DirArgLists == {<<>>, << << <<RootDir, <<"d">>>>, << <<"e">> >> >> >>}

InitDirs == InitWith(MaxDirLines, MaxDirRefs)

NextDirs ==
    \/ LoadData(LoadLines)
    \/ LoadUserData(LoadLines)
    \/ LoadDataLocal(LoadLines)
    \/ LoadResources(LoadLines)
    \/ LoadConfig(LoadLines)
    \/ LoadControl
    \/ AddDataDirectory(DirArgs)
    \/ SetDataDirectories(DirArgLists)

SpecDirs == InitDirs /\ [][NextDirs]_vars

----------------------------------------------------------------------------
(* C16 *)

\* C16: in every configuration, after load and after API calls that make
\* directory settings, the parsed path of every DataDirectory, UserData,
\* DataLocal, Resources and SubConfiguration entry is absolute, and a
\* relative value is resolved against the directory that holds the declaring
\* file, never against the path of the file itself
C16_AbsoluteParsed ==
    \A i \in 1..Len(settings) :
        settings[i].variant \in DirVariants
            => /\ IsAbsolute(settings[i].parsed)
               /\ \A n \in 1..Len(settings[i].parsed) : settings[i].parsed[n] # CfgName
               /\ settings[i].origin.seq # 0
                      => settings[i].parsed
                             = Cancelled(Join(DeclaringDir(settings[i]),
                                              Components(settings[i].value)))

\* the part of C16 about the entries load makes
C16_LoadedParsed ==
    \A i \in 1..Len(settings) :
        (settings[i].variant \in DirVariants /\ settings[i].origin.seq # 0)
            => /\ IsAbsolute(settings[i].parsed)
               /\ settings[i].parsed
                      = Cancelled(Join(DeclaringDir(settings[i]),
                                       Components(settings[i].value)))

----------------------------------------------------------------------------
(* Chains whose files hold replace directives                              *)

MaxUserLines == 2
MaxUserRefs == 2

InitUser == InitWith(MaxUserLines, MaxUserRefs)

NextUser ==
    \/ LoadGeneric(UserLines)
    \/ LoadReplace(UserLines)
    \/ LoadConfig(UserLines)
    \/ LoadControl

SpecUser == InitUser /\ [][NextUser]_vars

----------------------------------------------------------------------------
(* C17 *)

\* C17: after a successful load user_config_path() is the directory of the
\* file that was loaded last, and it is the directory of the root config
\* exactly when no file of a sub-configuration was loaded, whatever
\* directives the files hold, replace= directives included
C17_UserConfigIsLastLoaded ==
    status = "ready" =>
        /\ user_config_path(settings, root_config) = Parent(hist.file)
        /\ user_config_path(settings, root_config) = Parent(root_config)
               <=> hist.file = root_config

\* the same for loads in which no replace=config line was read
C17_WithoutReplaceConfig ==
    ( /\ status = "ready"
      /\ \A f \in DOMAIN fileText : \A n \in 1..Len(fileText[f]) :
             fileText[f][n] # <<"replace", "=", "config">> )
        => user_config_path(settings, root_config) = Parent(hist.file)

----------------------------------------------------------------------------
(* C18 *)

\* the texts of the entries of S, one after the other
RECURSIVE TextOf(_)
TextOf(S) == IF S = <<>> THEN <<>> ELSE SettingToString(Head(S)) \o TextOf(Tail(S))

C18_Step ==
    (status = "ready" /\ lastCall'.op = "save_subconfig") =>
        LET target_dir == lastCall'.arg
            cfg_path == target_dir \o <<CfgName>>
            matches == \E i \in 1..Len(settings) :
                           /\ settings[i].variant = "SubConfiguration"
                           /\ \/ settings[i].parsed = target_dir
                              \/ settings[i].value = PathToStr(target_dir)
        IN  /\ settings' = settings
            /\ ~matches => lastCall'.list = <<"refused">> /\ written' = written
            /\ lastCall'.list = <<"refused">> => written' = written
            /\ (matches /\ lastCall'.list # <<"refused">>) =>
                   /\ DOMAIN written' = DOMAIN written \cup {cfg_path}
                   /\ \A f \in DOMAIN written : f # cfg_path => written'[f] = written[f]
                   /\ written'[cfg_path]
                          = TextOf(SelectSeq(settings,
                                             LAMBDA x : x.source_config = cfg_path))

\* C18: save_subconfig(target_dir) for a directory that no SubConfiguration
\* entry matches, by its parsed path or by its original text, returns an
\* error and writes nothing; when an entry matches, the text written to
\* target_dir/openmw.cfg is made of the settings whose source_config is
\* that file, and of no others, in stored order
C18_SaveSubconfig == [][C18_Step]_vars

\* the file of the sub-configuration b was written with the text of its own
\* entry while settings held an entry of the root file too
C18_Witness ==
    /\ lastCall.op = "save_subconfig"
    /\ lastCall.arg = RootConfigDir \o << <<"b">> >>
    /\ lastCall.file \in DOMAIN written
    /\ written[lastCall.file] = <<"k", "=", "v">>
    /\ \E i \in 1..Len(settings) :
           settings[i].variant = "ContentFile" /\ settings[i].source_config = root_config

----------------------------------------------------------------------------
(* Chains that set and replace the singleton directories                   *)

MaxReplLines == 3
MaxReplRefs == 1

InitRepl == InitWith(MaxReplLines, MaxReplRefs)

NextRepl ==
    \/ LoadUserData(ReplLines)
    \/ LoadDataLocal(ReplLines)
    \/ LoadResources(ReplLines)
    \/ LoadReplace(ReplLines)
    \/ LoadConfig(ReplLines)
    \/ LoadControl

SpecRepl == InitRepl /\ [][NextRepl]_vars

----------------------------------------------------------------------------
(* C19 *)

SingletonCats ==
    { [what |-> <<"data-local">>, variant |-> "DataLocal"],
      [what |-> <<"resources">>, variant |-> "Resources"],
      [what |-> <<"user-data">>, variant |-> "UserData"] }

C19_Step ==
    \A c \in SingletonCats :
        ReplaceStep(c.what) =>
            /\ \A i \in 1..Len(settings') : settings'[i].variant # c.variant
            /\ GetSingleton(settings', c.variant) = <<>>

\* C19: when load processes replace=data-local, replace=resources or
\* replace=user-data, no entry of that category accumulated before the
\* directive is left in settings, however many there were, and the getter
\* returns None
C19_ReplaceSingleton == [][C19_Step]_vars

\* the same when at most one entry of the category had been accumulated
C19_Step_One ==
    \A c \in SingletonCats :
        (ReplaceStep(c.what) /\ Len(OfVariant(settings, c.variant)) <= 1) =>
            /\ \A i \in 1..Len(settings') : settings'[i].variant # c.variant
            /\ GetSingleton(settings', c.variant) = <<>>

C19_ReplaceSingleEntry == [][C19_Step_One]_vars

----------------------------------------------------------------------------
(* C20 *)

\* the settings selected for serializing file f
SelectedFor(S, f) == SelectSeq(S, LAMBDA x : x.source_config = f)

\* the settings made from directives of file f
MadeFrom(S, f) == SelectSeq(S, LAMBDA x : x.origin.seq # 0 /\ x.origin.file = f)

\* S without the entries of these variants
NotOfVariants(S, Vs) == SelectSeq(S, LAMBDA x : x.variant \notin Vs)

\* C20: after a load with no mutation, the settings selected for serializing
\* a file of the chain (source_config equal to the path of the file) are the
\* settings made from directives of that file that are still in settings,
\* in stored order; directory-valued settings carry the path of their file
\* like all others, and nothing that comes from no directive of the file is
\* selected
C20_SelectedAreOwn ==
    (status = "ready" /\ hist.calls = 0) =>
        \A f \in DOMAIN fileText : SelectedFor(settings, f) = MadeFrom(settings, f)

\* the same for the settings that hold no directory
C20_SelectedFilesAreOwn ==
    (status = "ready" /\ hist.calls = 0) =>
        \A f \in DOMAIN fileText :
            SelectedFor(NotOfVariants(settings, DirVariants), f)
                = MadeFrom(NotOfVariants(settings, DirVariants), f)

----------------------------------------------------------------------------
(* C21 *)

CreatingOps ==
    {"add_content_file", "add_archive_file", "add_groundcover_file",
     "add_data_directory", "set_content_files", "set_fallback_archives",
     "set_data_directories", "set_game_settings"}

\* the entries of settings' that settings did not hold
Created == {i \in 1..Len(settings') :
               \A j \in 1..Len(settings) : settings[j] # settings'[i]}

\* every entry a call of one of these operations created carries the path
\* of the user configuration file
CreatedForUserFile(ops) ==
    (ApiStep /\ lastCall'.op \in ops) =>
        \A i \in Created :
            settings'[i].source_config
                = user_config_path(settings', root_config) \o <<CfgName>>

\* C21: every entry created by add_content_file, add_archive_file,
\* add_groundcover_file, add_data_directory, set_content_files,
\* set_fallback_archives, set_data_directories or set_game_settings has the
\* source_config user_config_path()/openmw.cfg, the file save_user writes
C21_CreatedForUserFile == [][CreatedForUserFile(CreatingOps)]_vars

\* the same for the add_* operations alone
C21_AddedForUserFile ==
    [][CreatedForUserFile({"add_content_file", "add_archive_file",
                           "add_groundcover_file", "add_data_directory"})]_vars

----------------------------------------------------------------------------
(* C23 *)

\* a call of set_game_settings that returned an error
GameSettingsRejected ==
    ApiStep /\ lastCall'.op = "set_game_settings" /\ error' # NoError

\* C23: a call of set_game_settings that returns an error for an invalid
\* element of the list has no partial effect: settings after the call is
\* the sequence before it
C23_RejectedKeepsSettings == [][GameSettingsRejected => settings' = settings]_vars

\* a rejected call changes no entry of another category
C23_RejectedKeepsOthers ==
    [][GameSettingsRejected =>
          NotOfVariant(settings', "GameSetting")
              = NotOfVariant(settings, "GameSetting")]_vars

----------------------------------------------------------------------------
(* C24 *)

\* the step on which new() finishes the loaded configuration
NewStep == status = "loading" /\ status' = "ready"

\* x is a DataDirectory entry for the directory `name` below R
IsVfsEntry(x, R, name) ==
    /\ x.variant = "DataDirectory"
    /\ x.value = PathToStr(R \o <<<<name>>>>)
    /\ x.parsed = R \o <<<<name>>>>

C24_Step ==
    NewStep =>
        LET res == OfVariant(settings, "Resources")
        IN  IF res = <<>>
            THEN settings' = settings
            ELSE /\ Len(settings') = Len(settings) + 2
                 /\ IsVfsEntry(settings'[1], res[Len(res)].parsed, "vfs")
                 /\ IsVfsEntry(settings'[2], res[Len(res)].parsed, "vfs-mw")
                 /\ SubSeq(settings', 3, Len(settings')) = settings

\* C24: when the loaded settings hold an effective Resources entry with the
\* parsed directory R, new() puts DataDirectory entries for R/vfs and
\* R/vfs-mw, in that order, in front of all loaded settings, whatever
\* replace=data lines the chain holds; without a Resources entry it adds
\* nothing to the loaded settings
C24_VfsFirst == [][C24_Step]_vars

\* a finished configuration whose chain held replace=data and resources=
C24_Witness ==
    /\ status = "ready" /\ lastCall.op = "new"
    /\ Len(settings) >= 3
    /\ IsVfsEntry(settings[1], GetSingleton(settings, "Resources")[1].parsed, "vfs")
    /\ \E f \in DOMAIN fileText : \E i \in 1..Len(fileText[f]) :
           /\ fileText[f][i] = <<"replace", "=", "data">>
           /\ \E j \in 1..(i - 1) : fileText[f][j] = <<"resources", "=", "a">>

\* a finished configuration without a Resources entry
C24_WitnessNone ==
    /\ status = "ready" /\ lastCall.op = "new"
    /\ settings # <<>> /\ OfVariant(settings, "Resources") = <<>>

----------------------------------------------------------------------------
(* C22 *)

\* the step just taken processed an encoding= line with a valid value
EncodingLineStep ==
    LineStep /\ status' = "loading" /\ HasKey(lastCall'.arg, "encoding")

\* x is the entry of the encoding= line the step processed: its value, the
\* comment pending before it and the source load() has for the file
IsEncodingOfLine(x) ==
    /\ x.variant = "Encoding"
    /\ <<"encoding", "=">> \o x.value = lastCall'.arg
    /\ x.comment = Top.queued_comment
    /\ x.source_config = Top.config_dir
    /\ x.origin = Origin

\* an encoding= line overwrites the Encoding entry where it stands or, when
\* there is none, appends one; no other step touches the entry
C22_Step ==
    IF EncodingLineStep
    THEN IF OfVariant(settings, "Encoding") = <<>>
         THEN /\ Len(settings') = Len(settings) + 1
              /\ SubSeq(settings', 1, Len(settings)) = settings
              /\ IsEncodingOfLine(settings'[Len(settings')])
         ELSE /\ Len(settings') = Len(settings)
              /\ \A i \in 1..Len(settings) :
                     IF settings[i].variant = "Encoding"
                     THEN IsEncodingOfLine(settings'[i])
                     ELSE settings'[i] = settings[i]
    ELSE OfVariant(settings', "Encoding") = OfVariant(settings, "Encoding")

\* at most one Encoding entry, and it is the one of the encoding= line
\* processed last
C22_Inv ==
    /\ Len(OfVariant(settings, "Encoding")) <= 1
    /\ (OfVariant(settings, "Encoding") = <<>>) = (hist.last["Encoding"] = 0)
    /\ \A i \in 1..Len(settings) :
           settings[i].variant = "Encoding"
               => settings[i].origin.seq = hist.last["Encoding"]

----------------------------------------------------------------------------
(* Loads of files with comment blocks                                      *)

MaxCommentLines == 3
MaxCommentRefs == 1

\* comment and blank lines around directives that take the pending comment,
\* one that leaves it pending and references
CommentLines ==
    { <<"#", " ", "c">>,
      <<>>,
      <<"k", "=", "v">>,
      <<"data", "=", "a">>,
      <<"replace", "=", "data">>,
      <<"config", "=", "b">>,
      <<"config", "=", "m">> }

InitComment == InitWith(MaxCommentLines, MaxCommentRefs)

NextComment ==
    \/ LoadBlankLine(CommentLines)
    \/ LoadCommentLine(CommentLines)
    \/ LoadGeneric(CommentLines)
    \/ LoadData(CommentLines)
    \/ LoadReplace(CommentLines)
    \/ LoadConfig(CommentLines)
    \/ LoadControl

SpecComment == InitComment /\ [][NextComment]_vars

----------------------------------------------------------------------------
(* C25 *)

\* the text of the comment and blank lines that stand in `lines` before
\* line n and after the last directive before it that is no replace=
RECURSIVE CommentBefore(_, _)
CommentBefore(lines, n) ==
    IF n <= 1 THEN <<>>
    ELSE LET l == lines[n - 1]
         IN  IF l = <<>> THEN CommentBefore(lines, n - 1) \o <<"\n">>
             ELSE IF l[1] = "#" THEN CommentBefore(lines, n - 1) \o l \o <<"\n">>
             ELSE IF l[1] = "replace" THEN CommentBefore(lines, n - 1)
             ELSE <<>>

\* every setting made from a line holds the comment block in front of that
\* line, and so does every reference that is queued
C25_Inv ==
    /\ \A i \in 1..Len(settings) :
           settings[i].origin.seq # 0 =>
               settings[i].comment
                   = CommentBefore(fileText[settings[i].origin.file],
                                   settings[i].origin.line)
    /\ \A d \in 1..Len(stack) :
           /\ \A j \in 1..Len(stack[d].sub_configs) :
                  stack[d].sub_configs[j].comment
                      = CommentBefore(fileText[stack[d].config_dir],
                                      stack[d].sub_configs[j].origin.line)
           /\ stack[d].phase = "lines" =>
                  stack[d].queued_comment
                      = CommentBefore(fileText[stack[d].config_dir], stack[d].n + 1)

\* the pending comment is empty right after a setting is made or a reference
\* is queued, and a load starts a file with no pending comment
C25_Step ==
    /\ (LineStep /\ status' = "loading"
           /\ (Len(settings') > Len(settings) \/ HasKey(lastCall'.arg, "config")))
          => stack'[Len(stack')].queued_comment = <<>>
    /\ Len(stack') > Len(stack) => stack'[Len(stack')].queued_comment = <<>>

\* C25: every comment or blank line of a file is attached to at most one
\* setting, the one made from the first later directive of the same file
\* that makes a setting or queues a reference; the pending comment is empty
\* right after a setting is made or a config= entry is queued; no comment
\* goes to a setting of another file, and what is pending at the end of a
\* file is not carried into a sub-configuration
C25_CommentsAttachedOnce == []C25_Inv /\ [][C25_Step]_vars

\* the comment before a config= line went to the SubConfiguration entry and
\* not to the setting of the line after it
C25_Witness ==
    /\ status = "ready"
    /\ \E i, j \in 1..Len(settings) :
           /\ settings[i].variant = "SubConfiguration"
           /\ settings[i].comment # <<>>
           /\ settings[j].variant = "Generic"
           /\ settings[j].origin.file = root_config
           /\ settings[j].origin.line > settings[i].origin.line
           /\ settings[j].comment = <<>>

----------------------------------------------------------------------------
(* C26 *)

\* the category-scoped operations and the category each works on
ScopedOps ==
    { [op |-> "remove_content_file", variant |-> "ContentFile"],
      [op |-> "remove_groundcover_file", variant |-> "Groundcover"],
      [op |-> "remove_archive_file", variant |-> "BethArchive"],
      [op |-> "remove_data_directory", variant |-> "DataDirectory"],
      [op |-> "set_content_files", variant |-> "ContentFile"],
      [op |-> "set_fallback_archives", variant |-> "BethArchive"],
      [op |-> "set_data_directories", variant |-> "DataDirectory"],
      [op |-> "set_game_settings", variant |-> "GameSetting"],
      [op |-> "add_content_file", variant |-> "ContentFile"],
      [op |-> "add_groundcover_file", variant |-> "Groundcover"],
      [op |-> "add_archive_file", variant |-> "BethArchive"],
      [op |-> "add_data_directory", variant |-> "DataDirectory"] }

\* after is before with entries of the category left out, followed by new
\* entries of the category
KeptThenNew(before, after, variant) ==
    \E k \in 0..Len(after) :
        /\ IsSubseq(SubSeq(after, 1, k), before)
        /\ NotOfVariant(SubSeq(after, 1, k), variant) = NotOfVariant(before, variant)
        /\ \A i \in (k + 1)..Len(after) :
               /\ after[i].variant = variant
               /\ after[i].origin = ApiOrigin

C26_Step ==
    \A c \in ScopedOps :
        (ApiStep /\ lastCall'.op = c.op) => KeptThenNew(settings, settings', c.variant)

\* C26: a category-scoped mutation leaves every entry of every other
\* category in settings, keeps the relative order of the entries that
\* survive, and puts new entries only at the end
C26_OtherCategoriesKept == [][C26_Step]_vars

\* set_content_files has replaced a content entry that stood in front of an
\* entry of another category
C26_Witness ==
    /\ lastCall.op = "set_content_files"
    /\ Len(settings) >= 2
    /\ settings[1].variant \notin {"ContentFile", "DataDirectory"}
    /\ settings[1].origin.seq > 1
    /\ settings[Len(settings)].variant = "ContentFile"
    /\ settings[Len(settings)].origin = ApiOrigin

----------------------------------------------------------------------------
(* C29 *)

\* the values of the config= lines among `lines`, in order
RefValues(lines) ==
    LET refs == SelectSeq(lines, LAMBDA l : Len(l) >= 2 /\ l[1] = "config")
    IN  [i \in 1..Len(refs) |-> SubSeq(refs[i], 3, Len(refs[i]))]

QueuedValues(frame) ==
    [i \in 1..Len(frame.sub_configs) |-> frame.sub_configs[i].value]

\* while a file is read its queue holds the references of all lines read so
\* far, in order; afterwards what is left of them, taken from the front
C29_Inv ==
    \A d \in 1..Len(stack) :
        LET refs == RefValues(SubSeq(fileText[stack[d].config_dir], 1, stack[d].n))
        IN  IF stack[d].phase = "lines"
            THEN QueuedValues(stack[d]) = refs
            ELSE \E k \in 0..Len(refs) :
                     QueuedValues(stack[d]) = SubSeq(refs, k + 1, Len(refs))

\* replace=config empties settings and leaves the queue alone; the lines
\* after it add their settings to whatever settings holds; a queued
\* reference that is loaded adds its SubConfiguration entry
C29_Step ==
    /\ (LineStep /\ lastCall'.arg = <<"replace", "=", "config">>)
          => /\ settings' = <<>>
             /\ status' = "loading"
             /\ Len(stack') = Len(stack)
             /\ stack'[Len(stack)].sub_configs = Top.sub_configs
             /\ stack'[Len(stack)].phase = "lines"
    /\ (LineStep /\ lastCall'.arg = <<"k", "=", "v">>)
          => /\ Len(settings') = Len(settings) + 1
             /\ SubSeq(settings', 1, Len(settings)) = settings
             /\ settings'[Len(settings')].variant = "Generic"
             /\ settings'[Len(settings')].origin = Origin
    /\ Len(stack') > Len(stack)
          => /\ Len(settings') = Len(settings) + 1
             /\ SubSeq(settings', 1, Len(settings)) = settings
             /\ settings'[Len(settings')].variant = "SubConfiguration"
             /\ settings'[Len(settings')].value = Top.sub_configs[1].value

\* C29: replace=config during load removes every setting accumulated so
\* far, of every category, SubConfiguration entries and entries of earlier
\* lines of the same file included; the config= references queued by
\* earlier lines of the file are kept and loaded in declaration order after
\* the file has been consumed; directives after the line are accumulated
\* as usual
C29_ReplaceConfig == []C29_Inv /\ [][C29_Step]_vars

\* a sub-configuration was loaded through a reference queued before the
\* replace=config line of the root file, whose later k=v line is kept
C29_Witness ==
    /\ status = "ready"
    /\ fileText[root_config]
          = << <<"config", "=", "b">>, <<"replace", "=", "config">>, <<"k", "=", "v">> >>
    /\ Len(settings) = 2
    /\ settings[1].variant = "Generic"
    /\ settings[2].variant = "SubConfiguration"

\* replace=config in a sub-configuration has removed the entries of the
\* root file and the SubConfiguration entry of the file itself
C29_WitnessSub ==
    /\ status = "ready"
    /\ settings = <<>>
    /\ \E f \in DOMAIN fileText :
           /\ f # root_config
           /\ fileText[f] = << <<"replace", "=", "config">> >>
    /\ <<"k", "=", "v">> \in {fileText[root_config][i] :
                                 i \in 1..Len(fileText[root_config])}

----------------------------------------------------------------------------
(* Loads of files with references to directories without a config file     *)

MaxSkipLines == 2
MaxSkipRefs == 2

SkipLines ==
    { <<"k", "=", "v">>,
      <<"encoding", "=", "win1250">>,
      <<"config", "=", "b">>,
      <<"config", "=", "m">> }

InitSkip == InitWith(MaxSkipLines, MaxSkipRefs)

NextSkip ==
    \/ LoadGeneric(SkipLines)
    \/ LoadEncoding(SkipLines)
    \/ LoadConfig(SkipLines)
    \/ LoadControl

SpecSkip == InitSkip /\ [][NextSkip]_vars

----------------------------------------------------------------------------
(* C30 *)

\* the config file a queued reference of the activation on top stands for
QueuedFile(value) ==
    Join(parse_data_directory(CfgDirOf(Top.config_dir), value), <<CfgName>>)

\* the queued reference that is next leads to no openmw.cfg: nothing is
\* added, no error is raised and the rest of the queue stays to be processed
C30_Step ==
    (InSubs /\ Top.sub_configs # <<>>
        /\ ~Exists(QueuedFile(Top.sub_configs[1].value)))
      => /\ settings' = settings
         /\ error' = NoError
         /\ status' = "loading"
         /\ Len(stack') = Len(stack)
         /\ stack'[Len(stack)].sub_configs = Tail(Top.sub_configs)
         /\ stack'[Len(stack)].phase = "subs"

\* the file a SubConfiguration entry stands for
FileOfSub(x) == Join(x.parsed, <<CfgName>>)

\* every SubConfiguration entry stands for a file that was opened
SubConfigurationOpened ==
    \A i \in 1..Len(settings) :
        settings[i].variant = "SubConfiguration" =>
            /\ Exists(FileOfSub(settings[i]))
            /\ FileOfSub(settings[i]) \in DOMAIN fileText

\* in S the SubConfiguration entry of a file that was loaded once stands
\* directly in front of the first entry made from the lines of that file
FirstEntryFollows(S) ==
    \A i \in 1..Len(S) :
        LET own == {j \in 1..Len(S) : S[j].origin.file = FileOfSub(S[i])}
            subs == {j \in 1..Len(S) : /\ S[j].variant = "SubConfiguration"
                                       /\ FileOfSub(S[j]) = FileOfSub(S[i])}
        IN  (S[i].variant = "SubConfiguration" /\ subs = {i} /\ own # {})
              => Min(own) = i + 1

\* C30: a config= directive whose directory holds no openmw.cfg adds no
\* SubConfiguration entry and no other setting, raises no error and does
\* not stop the processing of the references queued after it; a
\* SubConfiguration entry exists only for a directory whose openmw.cfg was
\* opened for loading, and it stands immediately before the first setting of
\* that file
C30_Original ==
    [](SubConfigurationOpened /\ FirstEntryFollows(settings)) /\ [][C30_Step]_vars

\* C30, amended: ... and, the Encoding entry left aside, it stands
\* immediately before the first setting of that file; the entry of an
\* encoding= line replaces an Encoding entry that exists already where that
\* stands, which may be in front of the SubConfiguration entry
C30_SkippedReference ==
    [](SubConfigurationOpened /\ FirstEntryFollows(NotOfVariant(settings, "Encoding")))
        /\ [][C30_Step]_vars

\* the root file refers to a directory without a config file and then to b,
\* whose entry stands in front of the setting of b
C30_Witness ==
    /\ status = "ready"
    /\ fileText[root_config] = << <<"config", "=", "m">>, <<"config", "=", "b">> >>
    /\ Len(settings) = 2
    /\ settings[1].variant = "SubConfiguration"
    /\ settings[1].value = <<"b">>
    /\ settings[2].origin.file = FileOfSub(settings[1])

----------------------------------------------------------------------------
(* Chains whose references may form cycles                                 *)

MaxCycleLines == 1
MaxCycleRefs == 3

\* the number of activations of load() the stack has room for
MaxStack == 4

InitCycle == InitWith(MaxCycleLines, MaxCycleRefs)

\* load(subconfig_path) while the stack has room
LoadSubConfigInStack == Len(stack) < MaxStack /\ LoadSubConfig

\* load(subconfig_path) when the stack has no room left: the recursion that
\* has no end overflows the stack
StackOverflow ==
    /\ InSubs /\ Top.sub_configs # <<>> /\ Len(stack) >= MaxStack
    /\ Exists(RefTarget(TakeSub(Top.sub_configs).value))
    /\ status' = "overflow"
    /\ lastCall' = Call("overflow", TakeSub(Top.sub_configs).value, <<>>, Top.config_dir)
    /\ UNCHANGED <<written, root_config, settings, stack, error, fileText, budget, hist>>

NextCycle ==
    \/ LoadGeneric(CycleLines)
    \/ LoadContent(CycleLines)
    \/ LoadGroundcover(CycleLines)
    \/ LoadArchive(CycleLines)
    \/ LoadInvalidLine(CycleLines)
    \/ LoadConfig(CycleLines)
    \/ EndOfFile
    \/ LoadSubConfigInStack
    \/ StackOverflow
    \/ SkipSubConfig
    \/ ReturnFromLoad
    \/ NewOk

SpecCycle == InitCycle /\ [][NextCycle]_vars

\* load() is sequential code that runs on until it returns
SpecCycleFair == SpecCycle /\ WF_vars(NextCycle)

\* the files the file is known to refer to
Edges(f) ==
    IF f \in DOMAIN fileText
    THEN {Children(f)[i] : i \in 1..Len(Children(f))}
    ELSE {}

\* the files reached from the files F over at most n references
RECURSIVE ReachIn(_, _)
ReachIn(F, n) ==
    IF n = 0 THEN F ELSE ReachIn(F \cup UNION {Edges(f) : f \in F}, n - 1)

\* some file refers, directly or through other files, to itself
HasCycle ==
    \E f \in DOMAIN fileText :
        f \in ReachIn(Edges(f), Cardinality(DOMAIN fileText))

\* the length of the longest reference path from the file
RECURSIVE Longest(_)
Longest(f) ==
    IF Edges(f) = {} THEN 0 ELSE 1 + Max({Longest(g) : g \in Edges(f)})

Returned == status \in {"ready", "failed"}

----------------------------------------------------------------------------
(* C27 *)

\* the nested activations are never more than the longest reference path
C27_Depth == ~HasCycle => Len(stack) <= 1 + Longest(root_config)

\* C27: for a chain whose config= references form no cycle, files that two
\* files refer to included, load eventually returns, with a configuration
\* or with an error, and the recursion is never deeper than the longest
\* reference path from the root
C27_AcyclicTerminates == []C27_Depth /\ <>(HasCycle \/ Returned)

\* a file that the root file and another file refer to was loaded twice
C27_Witness ==
    /\ status = "ready"
    /\ ~HasCycle
    /\ \E i, j \in 1..Len(settings) :
           /\ settings[i].variant = "SubConfiguration"
           /\ settings[j].variant = "SubConfiguration"
           /\ settings[i].parsed = settings[j].parsed
           /\ settings[i].origin.file # settings[j].origin.file

----------------------------------------------------------------------------
(* C28 *)

FileKeys == {"content", "groundcover", "fallback-archive"}

DuplicateKinds ==
    [content |-> "DuplicateContentFile", groundcover |-> "DuplicateGroundcoverFile"]
        @@ ("fallback-archive" :> "DuplicateArchiveFile")

\* the file holds a content=, groundcover= or fallback-archive= line or a
\* line without '='
Declares(f) ==
    \E i \in 1..Len(fileText[f]) :
        \/ fileText[f][i][1] \in FileKeys
        \/ Without(fileText[f][i], "=")

\* a file entry read in a file that is read for the second time fails as a
\* duplicate
C28_Step ==
    \A key \in FileKeys :
        (LineStep /\ Top.replay /\ lastCall'.arg[1] = key)
          => /\ status' = "failed"
             /\ error'.kind = DuplicateKinds[key]
             /\ error'.value = SubSeq(lastCall'.arg, 3, Len(lastCall'.arg))
             /\ error'.config_path = Top.config_dir

\* the recursion overflows only around files that declare none of these
C28_Inv ==
    status = "overflow" =>
        /\ HasCycle
        /\ \A d, e \in 1..Len(stack) :
               (d # e /\ stack[d].config_dir = stack[e].config_dir)
                   => ~Declares(stack[d].config_dir)

\* C28: with no replace= in any file, a file on a cycle of references that
\* declares content=, fallback-archive= or groundcover= stops the load with
\* the duplicate error when it is read the second time; the load recurses
\* without bound only around a cycle whose files declare none of the three
\* and hold no malformed line
C28_CycleStopsAtDuplicate == []C28_Inv /\ [][C28_Step]_vars

\* the root file, read again through a reference from b, found its own
\* content= entry
C28_Witness ==
    /\ status = "failed"
    /\ error.kind = "DuplicateContentFile"
    /\ error.config_path = root_config
    /\ HasCycle
    /\ lastCall.file = root_config
    /\ Len(fileText[root_config]) >= 2

\* a cycle of files with plain settings only has used up the stack
C28_WitnessOverflow ==
    /\ status = "overflow"
    /\ \E f \in DOMAIN fileText : fileText[f] # <<>> /\ fileText[f][1] = <<"k", "=", "v">>

====
